---- MODULE Spec2Model ----
(***************************************************************************)
(* Steam monitor plugin (main.py, steam_client.py): the per-rule state     *)
(* machine of _process_rule_update, the bounded event history, and the     *)
(* three background loops together with the force_refresh command, as      *)
(* coroutines of one asyncio event loop interleaved at their awaits.       *)
(***************************************************************************)
EXTENDS Integers, Sequences, FiniteSets, TLC

\* ------------------------------------------------------------------ bounds
\* Clock readings are whole seconds 1..MaxSec plus a flag telling whether the
\* float returned by time.time() has a fractional part.
MaxSec == 3
\* Length of a calendar day in seconds at the scale of the model.
DayLen == 2
\* Number of passes (passes of the three loops and force_refresh commands) explored.
MaxPasses == 2
\* Number of _process_rule_update calls explored by the engine specification.
MaxCalls == 2
\* Number of history appends explored by the history specification.
MaxAppends == 11

\* ------------------------------------------------------- program constants
\* rule["event_history"] = history[:10]
HistoryLimit == 10

\* ------------------------------------------------------------------ values
\* Python None (for str | None and dict | None values).
None == "None"

\* Game names an observation can carry.
Games == {"Go", "Speed Chess"}

\* Python truthiness of a str | None value.
Truthy(s) == s /= None /\ s /= ""

\* Python "a or b" on str | None values.
PyOr(a, b) == IF Truthy(a) THEN a ELSE b

Seconds == 1..MaxSec

\* A clock reading: the whole seconds and whether a fraction follows.
ClockReadings == [sec : Seconds, frac : BOOLEAN]

\* int(time.time())
IntTime(t) == t.sec

\* time.strftime("%Y-%m-%d"): the local calendar day of the reading; second 1
\* is the first second of day 0.
TodayStr(t) == (t.sec - 1) \div DayLen

\* int(time.time() - start_time): int() truncates towards zero, so a
\* negative difference with a fraction rounds up.
IntElapsed(t, start) ==
    IF t.sec - start < 0 /\ t.frac THEN t.sec - start + 1 ELSE t.sec - start

\* ------------------------------------------------------------ strings
\* Characters of the strings used as game names and game filters.
Chars(s) ==
    CASE s = "Go" -> <<"G", "o">>
      [] s = "Speed Chess" -> <<"S", "p", "e", "e", "d", " ", "C", "h", "e", "s", "s">>
      [] s = "chess" -> <<"c", "h", "e", "s", "s">>
      [] s = "CHESS" -> <<"C", "H", "E", "S", "S">>
      [] OTHER -> <<>>

LowerChar(c) ==
    CASE c = "G" -> "g" [] c = "S" -> "s" [] c = "C" -> "c"
      [] c = "H" -> "h" [] c = "E" -> "e" [] OTHER -> c

\* str.lower()
Lower(cs) == [i \in 1..Len(cs) |-> LowerChar(cs[i])]

\* Python "a in b" on strings.
IsSubstring(a, b) ==
    \E i \in 0..(Len(b) - Len(a)) : SubSeq(b, i + 1, i + Len(a)) = a

\* _notify_user's filter test: the notification goes on unless a filter is set
\* and is not contained in the game name, ignoring case.
FilterPasses(game_to_monitor, game_name) ==
    ~(Truthy(game_to_monitor)
      /\ ~IsSubstring(Lower(Chars(game_to_monitor)), Lower(Chars(game_name))))

\* ------------------------------------------------------------ rule engine
\* A variant of _add_event_to_history that never cuts the list.
AddEventMutantNoTrim(rule, event_type, game_name, duration, t) ==
    [rule EXCEPT !.event_history =
        <<[timestamp |-> IntTime(t), type |-> event_type,
           game |-> game_name, duration |-> duration]>> \o @]

\* history.insert(0, entry); rule["event_history"] = history[:10]
AddEventToHistory(rule, event_type, game_name, duration, t) ==
    LET inserted == <<[timestamp |-> IntTime(t), type |-> event_type,
                       game |-> game_name, duration |-> duration]>>
                    \o rule.event_history
        keep == IF Len(inserted) < HistoryLimit THEN Len(inserted) ELSE HistoryLimit
    IN  [rule EXCEPT !.event_history = SubSeq(inserted, 1, keep)]

\* The record add_rule appends for a new rule.
NewRule(rule_id, uid, id64, avatar_url, game_filter, monitoring_type, t) ==
    [rule_id |-> rule_id, notification_uid |-> uid, target_steam_id64 |-> id64,
     target_steam_avatar_url |-> avatar_url, game_name_to_monitor |-> game_filter,
     monitoring_type |-> monitoring_type,
     last_known_game_name |-> None, last_state_change_timestamp |-> IntTime(t),
     event_history |-> <<>>, total_playtime_today |-> 0,
     last_reset_day |-> TodayStr(t), current_game_start_timestamp |-> 0]

\* A variant without the daily reset.
DayRolloverMutantSkipped(rule, t) == rule

\* Daily reset at the top of _process_rule_update.
DayRollover(rule, t) ==
    IF rule.last_reset_day /= TodayStr(t)
    THEN [rule EXCEPT !.total_playtime_today = 0, !.last_reset_day = TodayStr(t)]
    ELSE rule

NoEvent == [type |-> "none", game |-> None, duration |-> 0, avatar_url |-> None]

\* A variant of the "stop" branch that keeps the start timestamp.
StopBranchMutantKeepStart(rule, t) ==
    LET start_time == rule.current_game_start_timestamp
        counted == start_time /= 0 /\ start_time > 0
        duration_seconds == IF counted THEN IntElapsed(t, start_time) ELSE 0
    IN  [rule |-> [rule EXCEPT !.total_playtime_today = @ + duration_seconds],
         duration |-> duration_seconds]

\* The "stop" branch: the session is closed and its duration accumulated.
StopBranch(rule, t) ==
    LET start_time == rule.current_game_start_timestamp
        counted == start_time /= 0 /\ start_time > 0
        duration_seconds == IF counted THEN IntElapsed(t, start_time) ELSE 0
    IN  [rule |-> [rule EXCEPT !.total_playtime_today = @ + duration_seconds,
                               !.current_game_start_timestamp = 0],
         duration |-> duration_seconds]

\* The "switch" branch before the common tail: the old session is closed and
\* recorded only when a start timestamp is stored, then the new one is opened.
\* appends lists the _add_event_to_history calls made, in call order.
SwitchBranch(rule, old_game_name, t) ==
    LET start_time_old == rule.current_game_start_timestamp
        counted == start_time_old /= 0 /\ start_time_old > 0
        duration_seconds_old == IntElapsed(t, start_time_old)
        closed == IF counted
                  THEN [rule EXCEPT !.total_playtime_today = @ + duration_seconds_old]
                  ELSE rule
    IN  [rule |-> [closed EXCEPT !.current_game_start_timestamp = IntTime(t)],
         appends |-> IF counted
                     THEN <<[type |-> "stop", game |-> old_game_name,
                             duration |-> duration_seconds_old]>>
                     ELSE <<>>]

\* The _add_event_to_history calls of one _process_rule_update, in call order.
RECURSIVE AddEvents(_, _, _)
AddEvents(rule, appends, t) ==
    IF appends = <<>> THEN rule
    ELSE AddEvents(AddEventToHistory(rule, Head(appends).type, Head(appends).game,
                                     Head(appends).duration, t),
                   Tail(appends), t)

\* The entry of the common tail: it names old_game_name or current_game_name.
TailEntry(event_type, old_game_name, current_game_name, duration_seconds) ==
    [type |-> event_type, game |-> PyOr(old_game_name, current_game_name),
     duration |-> duration_seconds]

\* The body of "if current_game_name != old_game_name" up to the call of
\* _notify_user: the rule after it, the history appends it made, and the
\* event handed to _notify_user (NoEvent if there is none).
StateChange(rule, current_info, t) ==
    LET current_game_name == current_info.game
        old_game_name == rule.last_known_game_name
        isStop == ~Truthy(current_game_name) /\ Truthy(old_game_name)
        isStart == Truthy(current_game_name) /\ ~Truthy(old_game_name)
        isSwitch == Truthy(current_game_name) /\ Truthy(old_game_name)
        stopped == StopBranch(rule, t)
        switched == SwitchBranch(rule, old_game_name, t)
        duration_seconds == IF isStop THEN stopped.duration ELSE 0
        event_type == IF isStop THEN "stop"
                      ELSE IF isStart \/ isSwitch THEN "start" ELSE "none"
        branched == IF isStop THEN stopped.rule
                    ELSE IF isStart
                    THEN [rule EXCEPT !.current_game_start_timestamp = IntTime(t)]
                    ELSE IF isSwitch THEN switched.rule
                    ELSE rule
        appends == (IF isSwitch THEN switched.appends ELSE <<>>)
                   \o <<TailEntry(event_type, old_game_name, current_game_name,
                                  duration_seconds)>>
    IN  IF current_game_name = old_game_name \/ event_type = "none"
        THEN [rule |-> rule, appends |-> <<>>, event |-> NoEvent]
        ELSE [rule |-> AddEvents(branched, appends, t),
              appends |-> appends,
              event |-> [type |-> event_type,
                         game |-> PyOr(current_game_name, old_game_name),
                         duration |-> duration_seconds,
                         avatar_url |-> current_info.avatar_url]]

\* A variant of the final update that does not store the observed game.
FinalUpdateMutantKeepsGame(rule, current_info, old_game_name, t) ==
    [rule EXCEPT !.target_steam_avatar_url = current_info.avatar_url,
                 !.last_state_change_timestamp =
                     IF current_info.game /= old_game_name THEN IntTime(t) ELSE @]

\* A variant of the final update that also rewrites the monitoring type.
FinalUpdateMutantRetypes(rule, current_info, old_game_name, t) ==
    [rule EXCEPT !.target_steam_avatar_url = current_info.avatar_url,
                 !.last_known_game_name = current_info.game,
                 !.monitoring_type = "individual",
                 !.last_state_change_timestamp =
                     IF current_info.game /= old_game_name THEN IntTime(t) ELSE @]

\* The rule.update({...}) that ends _process_rule_update; old_game_name is the
\* value read before the state change.
FinalUpdate(rule, current_info, old_game_name, t) ==
    [rule EXCEPT !.target_steam_avatar_url = current_info.avatar_url,
                 !.last_known_game_name = current_info.game,
                 !.last_state_change_timestamp =
                     IF current_info.game /= old_game_name THEN IntTime(t) ELSE @]


\* ------------------------------------------------------------ observations
\* current_info: dict | None.  NoInfo is None (no observation this cycle).
NoInfo == [present |-> FALSE, game |-> None, avatar_url |-> None]

\* {"name": ..., "game": ..., "avatar_url": ...} as returned by
\* get_single_player_status and extract_friends_game_status_from_html.
Infos == [present : {TRUE}, game : Games \cup {None}, avatar_url : {"avatar"}]

\* Outcome of the unguarded self.context.get_using_provider() call.
ProviderLookups == {"provider", "no_provider", "raises"}

\* _notify_user up to its first await: it returns at once when the filter
\* rejects the event, raises when the provider lookup raises, and otherwise
\* suspends (at the latest in send_message).
NotifyUserSync(rule, event, enable_llm, lookup) ==
    IF ~FilterPasses(rule.game_name_to_monitor, event.game) THEN "returned"
    ELSE IF enable_llm /\ lookup = "raises" THEN "raised"
    ELSE "suspended"

\* What the collaborators of one _notify_user run do: provider.text_chat
\* gives a completion text, an empty one, or raises; _create_meme_notification
\* gives a file path or None (it catches every error of its three requests);
\* html_render gives an image path or raises; send_message returns or raises.
NotifyOutcomes ==
    [llm : {"text", "empty", "raises"}, meme : {"path", "none"},
     render : {"path", "raises"}, send : {"sent", "raises"}]

\* The run in which every collaborator does its work.
AllFine == [llm |-> "text", meme |-> "path", render |-> "path", send |-> "sent"]

\* A variant of _notify_user whose text_chat call is outside the try.
NotifyUserRunMutantLlmRaises(rule, event, enable_llm, use_meme_notification, lookup, o) ==
    LET base_message == [text |-> "base_message", type |-> event.type,
                         game |-> event.game, duration |-> event.duration]
    IN  IF ~FilterPasses(rule.game_name_to_monitor, event.game)
        THEN [status |-> "returned", called |-> <<>>, sends |-> <<>>]
        ELSE IF enable_llm /\ lookup = "provider" /\ o.llm = "raises"
        THEN [status |-> "raised", called |-> <<"text_chat">>, sends |-> <<>>]
        ELSE [status |-> "returned",
              called |-> (IF enable_llm /\ lookup = "provider"
                          THEN <<"text_chat">> ELSE <<>>) \o <<"send_message">>,
              sends |-> <<[uid |-> rule.notification_uid,
                           chain |-> [kind |-> "Plain", message |-> base_message],
                           result |-> o.send]>>]

\* _notify_user(rule, event_type, game_name, duration_seconds, avatar_url)
\* from its call to its end, with the provider lookup and the collaborator
\* outcomes o: how it ended, the collaborators it called in order and the
\* send_message attempts it made with their chain.
NotifyUserRun(rule, event, enable_llm, use_meme_notification, lookup, o) ==
    LET base_message == [text |-> "base_message", type |-> event.type,
                         game |-> event.game, duration |-> event.duration]
        asks_llm == enable_llm /\ lookup = "provider"
        notification_message ==
            IF asks_llm /\ o.llm = "text"
            THEN [base_message EXCEPT !.text = "base_message + completion_text"]
            ELSE base_message
        asks_meme == use_meme_notification /\ Truthy(event.avatar_url)
        meme_path == IF asks_meme /\ o.meme = "path" THEN "meme_path" ELSE None
        asks_render == ~Truthy(meme_path) /\ Truthy(event.avatar_url)
        chain == IF Truthy(meme_path)
                 THEN [kind |-> "Image(meme_path)",
                       message |-> [base_message EXCEPT !.text = "meme_text"]]
                 ELSE IF asks_render /\ o.render = "path"
                 THEN [kind |-> "Image(image_path)", message |-> notification_message]
                 ELSE [kind |-> "Plain", message |-> notification_message]
    IN  IF ~FilterPasses(rule.game_name_to_monitor, event.game)
        THEN [status |-> "returned", called |-> <<>>, sends |-> <<>>]
        ELSE IF enable_llm /\ lookup = "raises"
        THEN [status |-> "raised", called |-> <<>>, sends |-> <<>>]
        ELSE [status |-> "returned",
              called |-> (IF asks_llm THEN <<"text_chat">> ELSE <<>>)
                         \o (IF asks_meme THEN <<"_create_meme_notification">> ELSE <<>>)
                         \o (IF asks_render THEN <<"html_render">> ELSE <<>>)
                         \o <<"send_message">>,
              sends |-> <<[uid |-> rule.notification_uid, chain |-> chain,
                           result |-> o.send]>>]

\* A variant that takes a player missing from the snapshot for one who is
\* online in no game.
ProcessRuleUpdateSyncMutantAbsentIsOffline(rule, current_info, t, enable_llm, lookup) ==
    LET seen == IF current_info.present THEN current_info
                ELSE [present |-> TRUE, game |-> None, avatar_url |-> None]
        reset == DayRollover(rule, t)
        old_game_name == reset.last_known_game_name
        change == StateChange(reset, seen, t)
        notify == IF change.event.type = "none" THEN "returned"
                  ELSE NotifyUserSync(change.rule, change.event, enable_llm, lookup)
    IN  [rule |-> IF notify = "returned"
                  THEN FinalUpdate(change.rule, seen, old_game_name, t)
                  ELSE change.rule,
         appends |-> change.appends, event |-> change.event,
         status |-> notify, old_game_name |-> old_game_name]

\* _process_rule_update from its call to its first suspension.  status is
\* "returned" when the coroutine ran to its end, "suspended" when it waits
\* in _notify_user (the final rule.update is still to come), "raised" when
\* an exception left it.
ProcessRuleUpdateSync(rule, current_info, t, enable_llm, lookup) ==
    LET reset == DayRollover(rule, t)
        old_game_name == reset.last_known_game_name
        change == StateChange(reset, current_info, t)
        notify == IF change.event.type = "none" THEN "returned"
                  ELSE NotifyUserSync(change.rule, change.event, enable_llm, lookup)
    IN  IF ~current_info.present
        THEN [rule |-> reset, appends |-> <<>>, event |-> NoEvent,
              status |-> "returned", old_game_name |-> old_game_name]
        ELSE [rule |-> IF notify = "returned"
                       THEN FinalUpdate(change.rule, current_info, old_game_name, t)
                       ELSE change.rule,
              appends |-> change.appends, event |-> change.event,
              status |-> notify, old_game_name |-> old_game_name]


\* ------------------------------------------------------------------ state
VARIABLES
    config,               \* the plugin configuration read in __init__
    rule_objs,            \* the rule dicts, by rule_id
    monitoring_rules,     \* self.monitoring_rules: the rule_ids in list order
    saved_rules,          \* content of monitoring_rules.json
    friend_list_states,   \* self.friend_list_states
    steam_id_cache,       \* self.steam_id_cache
    friend,               \* _friend_list_monitor_task
    individual,           \* _individual_monitor_task
    resolver,             \* _periodic_cache_resolver_task
    refresh,              \* the force_refresh command
    procs,                \* _process_rule_update coroutines suspended in _notify_user
    terminated,           \* terminate() has run
    passes,               \* polling passes started so far
    calls,                \* the _process_rule_update calls of the latest dispatch
    last_applied,         \* per rule: the observation applied last, if undisturbed
    appended,             \* every history entry appended so far, oldest first
    outbox,               \* the _notify_user run that ended last
    last_reply            \* what add_rule or remove_rule told its caller last

vars == <<config, rule_objs, monitoring_rules, saved_rules, friend_list_states,
          steam_id_cache, friend, individual, resolver, refresh, procs,
          terminated, passes, calls, last_applied, appended, outbox, last_reply>>

\* The outbox before any _notify_user run has ended.
NoRun ==
    [rule |-> 0, event |-> NoEvent, lookup |-> "no_provider", outcome |-> AllFine,
     status |-> "none", called |-> <<>>, sends |-> <<>>]

\* Marks a rule whose latest call did not run alone from start to end.
Unapplied == [present |-> FALSE, game |-> "unapplied", avatar_url |-> None]

SteamIds == {"id64_1"}

\* self.friend_list_cache = set(self.friend_list_states.keys())
friend_list_cache == {s \in SteamIds : friend_list_states[s].present}

\* [r for r in self.monitoring_rules if r.get("monitoring_type") == kind]
RulesOfType(kind) ==
    SelectSeq(monitoring_rules, LAMBDA id : rule_objs[id].monitoring_type = kind)

\* json.dump(self.monitoring_rules): the rule dicts as they are now.
RulesDocument(objs) == [i \in 1..Len(monitoring_rules) |-> objs[monitoring_rules[i]]]

\* --------------------------------------------------------------- dispatch
\* asyncio.gather(*tasks): the tasks take their first step one after the
\* other in list order, each running up to its first suspension.
BeginCall(st, rid, info, t, lookup, owner) ==
    LET res == ProcessRuleUpdateSync(st.objs[rid], info, t, config.enable_llm, lookup)
        busy == \E i \in 1..Len(st.procs) : st.procs[i].rule = rid
        disturbed == [i \in 1..Len(st.procs) |->
                        IF st.procs[i].rule = rid
                        THEN [st.procs[i] EXCEPT !.clean = FALSE] ELSE st.procs[i]]
        proc == [rule |-> rid, owner |-> owner, awaited |-> TRUE, info |-> info,
                 old_game_name |-> res.old_game_name, clean |-> ~busy,
                 event |-> res.event, lookup |-> lookup]
    IN  [objs |-> [st.objs EXCEPT ![rid] = res.rule],
         procs |-> IF res.status = "suspended" THEN Append(disturbed, proc) ELSE disturbed,
         calls |-> Append(st.calls,
                     [rule_id |-> rid, owner |-> owner, info |-> info, t |-> t,
                      pre |-> st.objs[rid], post |-> res.rule,
                      appends |-> res.appends, event |-> res.event,
                      status |-> res.status,
                      prev |-> IF busy THEN Unapplied ELSE st.applied[rid],
                      concurrent |-> busy]),
         applied |-> [st.applied EXCEPT ![rid] =
                        IF res.status = "returned" /\ ~busy THEN info ELSE Unapplied],
         raised |-> st.raised \/ res.status = "raised"]

\* A variant that runs the coroutines one after the other and stops at the
\* first one that raises.
RECURSIVE BeginAllMutantStopsAtRaise(_, _, _, _, _, _)
BeginAllMutantStopsAtRaise(st, rids, infos, t, lookups, owner) ==
    IF rids = <<>> \/ st.raised THEN st
    ELSE BeginAllMutantStopsAtRaise(
             BeginCall(st, Head(rids), Head(infos), t, Head(lookups), owner),
             Tail(rids), Tail(infos), t, Tail(lookups), owner)

RECURSIVE BeginAll(_, _, _, _, _, _)
BeginAll(st, rids, infos, t, lookups, owner) ==
    IF rids = <<>> THEN st
    ELSE BeginAll(BeginCall(st, Head(rids), Head(infos), t, Head(lookups), owner),
                  Tail(rids), Tail(infos), t, Tail(lookups), owner)

\* The tasks list of a pass handed to asyncio.gather.
Dispatch(rids, infos, t, lookups, owner) ==
    BeginAll([objs |-> rule_objs, procs |-> procs, calls |-> <<>>,
              applied |-> last_applied, raised |-> FALSE],
             rids, infos, t, lookups, owner)

\* A gather that raised no longer waits for its tasks; they run on.
Abandon(ps, owner) ==
    [i \in 1..Len(ps) |-> IF ps[i].owner = owner THEN [ps[i] EXCEPT !.awaited = FALSE]
                          ELSE ps[i]]

\* The gather of owner has no task left to wait for.
Gathered(owner) == \A i \in 1..Len(procs) : ~(procs[i].owner = owner /\ procs[i].awaited)

RemoveAt(seq, i) == SubSeq(seq, 1, i - 1) \o SubSeq(seq, i + 1, Len(seq))


\* ------------------------------------------------------------------- init
\* Configurations the plugin is started with: the cache resolver enabled
\* (id_re_resolve_interval_hours > 0) or disabled.
Configs ==
    [target_profile_url : {"https://steamcommunity.com/id/owner"},
     enable_llm : {TRUE},
     use_meme_notification : {FALSE},
     id_re_resolve_interval : {0, 1}]

TargetOf(rid) == "id64_1"

\* Rule files found at start: rules as add_rule wrote them, at time t.
LoadedRule(rid, kind, game_filter, t) ==
    NewRule(rid, "uid", TargetOf(rid), None, game_filter, kind, t)

RuleFiles ==
    {<<LoadedRule(1, k, f, [sec |-> 1, frac |-> FALSE])>> :
        k \in {"friend_list", "individual"}, f \in {None, "CHESS"}}

\* Clock readings taken while the loops run: the scheduler is explored
\* within one second, the rule engine over all of ClockReadings.
SchedulerClock == {[sec |-> MaxSec, frac |-> FALSE]}

\* A cache entry without "timestamp" (written by an earlier version).
NoTimestamp == 0 - 1

\* Identity cache file found at start: one entry without timestamp, one
\* resolved at the latest second and one resolved at the first second.
CacheFile ==
    [k \in {"https://steamcommunity.com/id/alice", "https://steamcommunity.com/id/bob",
            "https://steamcommunity.com/id/carol"} |->
        IF k = "https://steamcommunity.com/id/alice"
        THEN [id64 |-> "id64_1", timestamp |-> NoTimestamp]
        ELSE IF k = "https://steamcommunity.com/id/bob"
        THEN [id64 |-> "id64_2", timestamp |-> MaxSec]
        ELSE [id64 |-> "id64_3", timestamp |-> 1]]

\* dict(self.steam_id_cache).items(): the keys in insertion order.
CacheKeys == <<"https://steamcommunity.com/id/alice", "https://steamcommunity.com/id/bob",
              "https://steamcommunity.com/id/carol">>

\* What the profile page fetched by resolve_steam_url_to_id64 gives: no page
\* (fetch_html returned no str), a page without steamID64 meta tag, or a
\* page with one.
ProfilePages ==
    {[fetched |-> FALSE, id64 |-> None], [fetched |-> TRUE, id64 |-> None],
     [fetched |-> TRUE, id64 |-> "id64_9"]}

\* The normalized_input of resolve_steam_url_to_id64: a profile URL loses its
\* trailing slashes, a 17-digit ID stays, anything else is taken as a custom
\* name and put behind the /id/ base URL.
Normalize(steam_url_or_id) ==
    CASE steam_url_or_id = "https://steamcommunity.com/id/alice/"
           -> "https://steamcommunity.com/id/alice"
      [] steam_url_or_id = "alice" -> "https://steamcommunity.com/id/alice"
      [] steam_url_or_id = "dave" -> "https://steamcommunity.com/id/dave"
      [] OTHER -> steam_url_or_id

\* A variant that drops the entry when a forced resolution finds no ID.
ResolveSteamUrlToId64MutantDrops(steam_url_or_id, cache, force_re_resolve, page) ==
    LET normalized_input == Normalize(steam_url_or_id)
    IN  IF ~force_re_resolve /\ normalized_input \in DOMAIN cache
        THEN [status |-> "returned", id64 |-> cache[normalized_input].id64, cache |-> cache]
        ELSE IF ~page.fetched \/ ~Truthy(page.id64)
        THEN [status |-> "returned", id64 |-> None,
              cache |-> [k \in DOMAIN cache \ {normalized_input} |-> cache[k]]]
        ELSE [status |-> "raised", id64 |-> None, cache |-> cache]

\* resolve_steam_url_to_id64(steam_url_or_id, steam_id_cache, force_re_resolve)
\* with the page its fetch gives: the ID returned (None for the triple of
\* None), the cache after the call and whether the call raised.  Building
\* the cache entry evaluates int(time.time()), and steam_client.py never
\* imports time: the NameError leaves the cache as it was.
ResolveSteamUrlToId64(steam_url_or_id, cache, force_re_resolve, page) ==
    LET normalized_input == Normalize(steam_url_or_id)
    IN  IF ~force_re_resolve /\ normalized_input \in DOMAIN cache
        THEN [status |-> "returned", id64 |-> cache[normalized_input].id64, cache |-> cache]
        ELSE IF ~page.fetched \/ ~Truthy(page.id64)
        THEN [status |-> "returned", id64 |-> None, cache |-> cache]
        ELSE [status |-> "raised", id64 |-> None, cache |-> cache]

\* _periodic_cache_resolver_task up to its first await: it returns at once
\* when the interval is not positive, else it sleeps its startup delay.
ResolverFirstStep(interval) ==
    [pc |-> IF interval <= 0 THEN "returned" ELSE "sleep",
     sleep |-> IF interval <= 0 THEN "none" ELSE "startup",
     now |-> 0, todo |-> <<>>, key |-> None, resolved |-> <<>>, updated_count |-> 0,
     errors |-> 0,
     last |-> [key |-> None, page |-> [fetched |-> FALSE, id64 |-> None],
               status |-> "none"]]

\* No command has been answered.
NoReply == [command |-> "none", result |-> "none"]

\* State after __init__: the three tasks are created and wait in their first
\* sleep, except the cache resolver when it is disabled.
Init ==
    /\ config \in Configs
    /\ \E file \in RuleFiles :
          /\ rule_objs = [rid \in 1..Len(file) |-> file[rid]]
          /\ monitoring_rules = [i \in 1..Len(file) |-> i]
          /\ saved_rules = file
          /\ last_applied = [rid \in 1..Len(file) |-> Unapplied]
    /\ friend_list_states = [s \in SteamIds |-> NoInfo]
    /\ steam_id_cache = CacheFile
    /\ friend = [pc |-> "sleep", sleep |-> "startup", rules |-> <<>>,
                 errors |-> 0, alerts |-> 0, fetch |-> "none"]
    /\ individual = [pc |-> "sleep", sleep |-> "startup", rules |-> <<>>,
                     infos |-> <<>>, errors |-> 0]
    /\ resolver = ResolverFirstStep(config.id_re_resolve_interval)
    /\ refresh = [pc |-> "idle", rules |-> <<>>, infos |-> <<>>]
    /\ procs = <<>>
    /\ terminated = FALSE
    /\ passes = 0
    /\ calls = <<>>
    /\ appended = <<>>
    /\ outbox = NoRun
    /\ last_reply = NoReply

\* ------------------------------------------------------- friend-list loop
\* What fetch_html of the friends page returns: 403, None (a failure or
\* timeout) or the page; a page holds the status of each listed friend, and
\* a friend block without a player_avatar div makes the extraction raise.
Snapshots == [SteamIds -> Infos \cup {NoInfo}]

\* self.friend_list_states = {} of __init__: nobody is listed.
NoSnapshot == [s \in SteamIds |-> NoInfo]

\* The sleep ends (startup, interval or backoff) and the loop body runs up
\* to the await of fetch_html; without friend rules or target it sleeps again.
FriendWake ==
    /\ friend.pc = "sleep"
    /\ LET friend_rules == RulesOfType("friend_list")
       IN  IF friend_rules = <<>> \/ config.target_profile_url = ""
           THEN /\ friend' = [friend EXCEPT !.sleep = "friend_list_interval"]
                /\ passes' = passes
           ELSE /\ passes < MaxPasses
                /\ passes' = passes + 1
                /\ friend' = [friend EXCEPT !.pc = "fetch", !.rules = friend_rules]
    /\ UNCHANGED <<last_reply, outbox, config, rule_objs, monitoring_rules, saved_rules, friend_list_states,
                   steam_id_cache, individual, resolver, refresh, procs, terminated,
                   calls, last_applied, appended>>

\* A variant of the 403 branch that tells nobody.
ForbiddenBranchMutantSilent(loop) ==
    [loop EXCEPT !.pc = "sleep", !.sleep = "friend_list_interval*5", !.fetch = "403"]

\* A variant of the 403 branch that sleeps the normal interval.
ForbiddenBranchMutantNoBackoff(loop) ==
    [loop EXCEPT !.pc = "sleep", !.sleep = "friend_list_interval", !.alerts = @ + 1, !.fetch = "403"]

\* The 403 branch of the loop body: one _notify_admins call (alerts counts
\* them), then the sleep of five intervals and "continue".  fetch keeps what
\* the latest fetch of the loop gave.
ForbiddenBranch(loop) ==
    [loop EXCEPT !.pc = "sleep", !.sleep = "friend_list_interval*5", !.alerts = @ + 1,
                 !.fetch = "403"]

\* fetch_html returned 403: the admins are told and the loop backs off.
FriendForbidden ==
    /\ friend.pc = "fetch"
    /\ friend' = ForbiddenBranch(friend)
    /\ UNCHANGED <<last_reply, outbox, config, rule_objs, monitoring_rules, saved_rules, friend_list_states,
                   steam_id_cache, individual, resolver, refresh, procs, terminated,
                   passes, calls, last_applied, appended>>

\* A variant in which an exception ends the loop.
FriendHandlerMutantLoopEnds(loop, ps) ==
    [loop |-> [loop EXCEPT !.pc = "ended", !.errors = @ + 1], procs |-> Abandon(ps, "friend")]

\* The except clause of the loop body, followed by the sleep after it.
FriendHandler(loop, ps) ==
    [loop |-> [loop EXCEPT !.pc = "sleep", !.sleep = "friend_list_interval",
                           !.errors = @ + 1],
     procs |-> Abandon(ps, "friend")]

\* fetch_html returned a page whose extraction raises (AttributeError).
FriendPageMalformed ==
    /\ friend.pc = "fetch"
    /\ friend' = FriendHandler([friend EXCEPT !.fetch = "malformed"], procs).loop
    /\ procs' = FriendHandler(friend, procs).procs
    /\ UNCHANGED <<last_reply, outbox, config, rule_objs, monitoring_rules, saved_rules, friend_list_states,
                   steam_id_cache, individual, resolver, refresh, terminated,
                   passes, calls, last_applied, appended>>

\* What fetch_html gives besides 403 and a page whose extraction raises: a
\* page with its extracted snapshot, or None.
FriendFetches ==
    {[kind |-> "page", states |-> page] : page \in Snapshots}
    \cup {[kind |-> "unavailable", states |-> NoSnapshot]}

\* fetch_html returned a page (the snapshot replaces friend_list_states) or
\* None (the old snapshot stays); the rules captured at the top of the pass
\* are then processed against friend_list_states.
FriendFetched ==
    /\ friend.pc = "fetch"
    /\ \E html_content \in FriendFetches, t \in SchedulerClock,
          lookups \in [1..Len(friend.rules) -> ProviderLookups] :
          \E states \in {IF html_content.kind = "page"
                          THEN html_content.states ELSE friend_list_states} :
          \E infos \in {[i \in 1..Len(friend.rules) |->
                            states[rule_objs[friend.rules[i]].target_steam_id64]]} :
          \E d \in {Dispatch(friend.rules, infos, t, lookups, "friend")} :
          \E loop \in {[friend EXCEPT !.fetch = html_content.kind]} :
          \E handled \in {FriendHandler(loop, d.procs)} :
              /\ friend_list_states' = states
              /\ rule_objs' = d.objs
              /\ calls' = d.calls
              /\ last_applied' = d.applied
              /\ IF d.raised
                 THEN friend' = handled.loop /\ procs' = handled.procs
                 ELSE friend' = [loop EXCEPT !.pc = "gather"] /\ procs' = d.procs
    /\ UNCHANGED <<last_reply, outbox, config, monitoring_rules, saved_rules, steam_id_cache, individual,
                   resolver, refresh, terminated, passes, appended>>

\* gather is done: the rules are saved and the loop sleeps.
FriendGathered ==
    /\ friend.pc = "gather"
    /\ Gathered("friend")
    /\ saved_rules' = RulesDocument(rule_objs)
    /\ friend' = [friend EXCEPT !.pc = "sleep", !.sleep = "friend_list_interval"]
    /\ UNCHANGED <<last_reply, outbox, config, rule_objs, monitoring_rules, friend_list_states,
                   steam_id_cache, individual, resolver, refresh, procs, terminated,
                   passes, calls, last_applied, appended>>


\* -------------------------------------------------------- individual loop
\* A variant that never looks at the avatar references.
CalculateIndividualNextSleepTimeMutantNoOnlineTier(individual_rules) ==
    IF \E i \in 1..Len(individual_rules) :
          Truthy(rule_objs[individual_rules[i]].last_known_game_name)
    THEN "ind_ingame_interval"
    ELSE "ind_offline_interval"

\* _calculate_individual_next_sleep_time
CalculateIndividualNextSleepTime(individual_rules) ==
    IF \E i \in 1..Len(individual_rules) :
          Truthy(rule_objs[individual_rules[i]].last_known_game_name)
    THEN "ind_ingame_interval"
    ELSE IF \E i \in 1..Len(individual_rules) :
               Truthy(rule_objs[individual_rules[i]].target_steam_avatar_url)
    THEN "ind_online_interval"
    ELSE "ind_offline_interval"

\* The top of the loop body up to its first await: a sleep of the medium
\* interval without individual rules, else the sleep before the poll.
IndividualTop(loop) ==
    LET individual_rules == RulesOfType("individual")
    IN  IF individual_rules = <<>>
        THEN [loop EXCEPT !.pc = "sleep", !.sleep = "ind_online_interval",
                          !.rules = <<>>, !.infos = <<>>]
        ELSE [loop EXCEPT !.pc = "presleep",
                          !.sleep = CalculateIndividualNextSleepTime(individual_rules),
                          !.rules = individual_rules, !.infos = <<>>]

\* The startup sleep, the idle sleep or the sleep after an error ends.
IndividualWake ==
    /\ individual.pc = "sleep"
    /\ individual' = IndividualTop(individual)
    /\ UNCHANGED <<last_reply, outbox, config, rule_objs, monitoring_rules, saved_rules, friend_list_states,
                   steam_id_cache, friend, resolver, refresh, procs, terminated,
                   passes, calls, last_applied, appended>>

\* The sleep before the poll ends and the first status fetch is awaited.
IndividualPoll ==
    /\ individual.pc = "presleep"
    /\ passes < MaxPasses
    /\ passes' = passes + 1
    /\ individual' = [individual EXCEPT !.pc = "fetch"]
    /\ UNCHANGED <<last_reply, outbox, config, rule_objs, monitoring_rules, saved_rules, friend_list_states,
                   steam_id_cache, friend, resolver, refresh, procs, terminated,
                   calls, last_applied, appended>>

\* A variant in which an exception ends the individual loop.
IndividualHandlerMutantLoopEnds(loop, ps) ==
    [loop |-> [loop EXCEPT !.pc = "ended", !.errors = @ + 1], procs |-> Abandon(ps, "individual")]

\* The except clause of the loop body with its sleep of the medium interval.
IndividualHandler(loop, ps) ==
    [loop |-> [loop EXCEPT !.pc = "sleep", !.sleep = "ind_online_interval",
                           !.rules = <<>>, !.infos = <<>>, !.errors = @ + 1],
     procs |-> Abandon(ps, "individual")]

\* get_single_player_status returned for the next rule of the pass (None
\* when the profile page could not be fetched); after the last rule the
\* collected coroutines are handed to gather.
IndividualFetched ==
    /\ individual.pc = "fetch"
    /\ \E info \in Infos \cup {NoInfo} :
          \E infos \in {Append(individual.infos, info)} :
              IF Len(infos) < Len(individual.rules)
              THEN /\ individual' = [individual EXCEPT !.infos = infos]
                   /\ UNCHANGED <<rule_objs, calls, last_applied, procs>>
              ELSE \E t \in SchedulerClock,
                      lookups \in [1..Len(individual.rules) -> ProviderLookups] :
                      \E d \in {Dispatch(individual.rules, infos, t, lookups,
                                          "individual")} :
                      \E handled \in {IndividualHandler(individual, d.procs)} :
                          /\ rule_objs' = d.objs
                          /\ calls' = d.calls
                          /\ last_applied' = d.applied
                          /\ IF d.raised
                             THEN individual' = handled.loop /\ procs' = handled.procs
                             ELSE /\ individual' = [individual EXCEPT !.pc = "gather",
                                                                      !.infos = infos]
                                  /\ procs' = d.procs
    /\ UNCHANGED <<last_reply, outbox, config, monitoring_rules, saved_rules, friend_list_states,
                   steam_id_cache, friend, resolver, refresh, terminated, passes,
                   appended>>

\* gather is done: the rules are saved and the next loop body starts at once.
IndividualGathered ==
    /\ individual.pc = "gather"
    /\ Gathered("individual")
    /\ saved_rules' = RulesDocument(rule_objs)
    /\ individual' = IndividualTop(individual)
    /\ UNCHANGED <<last_reply, outbox, config, rule_objs, monitoring_rules, friend_list_states,
                   steam_id_cache, friend, resolver, refresh, procs, terminated,
                   passes, calls, last_applied, appended>>

\* ------------------------------------------------- suspended rule updates
\* _notify_user goes through its awaited calls (each of them guarded) with
\* the collaborator outcomes o and returns; the coroutine ends with
\* rule.update.
NotifyReturnedAt(clock, outcomes) ==
    \E i \in 1..Len(procs), t \in clock, o \in outcomes :
       \E p \in {procs[i]} :
       \E run \in {NotifyUserRun(rule_objs[p.rule], p.event, config.enable_llm,
                                  config.use_meme_notification, p.lookup, o)} :
           /\ run.status = "returned"
           /\ outbox' = [rule |-> p.rule, event |-> p.event, lookup |-> p.lookup,
                         outcome |-> o, status |-> run.status, called |-> run.called,
                         sends |-> run.sends]
           /\ rule_objs' = [rule_objs EXCEPT ![p.rule] =
                              FinalUpdate(@, p.info, p.old_game_name, t)]
           /\ procs' = RemoveAt(procs, i)
           /\ last_applied' = [last_applied EXCEPT ![p.rule] =
                                 IF p.clean THEN p.info ELSE Unapplied]
           /\ UNCHANGED <<last_reply, config, monitoring_rules, saved_rules,
                          friend_list_states, steam_id_cache, friend, individual,
                          resolver, refresh,
                          terminated, passes, calls, appended>>

NotifyReturned == NotifyReturnedAt(SchedulerClock, {AllFine})

\* ---------------------------------------------------------- force_refresh
\* The second half of force_refresh up to its next await: the individual
\* rules are fetched one by one, or the rules are saved and the command ends.
RefreshIndividualPart ==
    LET individual_rules == RulesOfType("individual")
    IN  IF individual_rules = <<>>
        THEN /\ refresh' = [pc |-> "idle", rules |-> <<>>, infos |-> <<>>]
             /\ saved_rules' = RulesDocument(rule_objs)
        ELSE /\ refresh' = [pc |-> "individual_fetch", rules |-> individual_rules,
                            infos |-> <<>>]
             /\ saved_rules' = saved_rules

\* The command is received: with friend rules and a target the friends page
\* is fetched first.
RefreshStart ==
    /\ refresh.pc = "idle"
    /\ ~terminated
    /\ passes < MaxPasses
    /\ passes' = passes + 1
    /\ LET friend_rules == RulesOfType("friend_list")
       IN  IF friend_rules /= <<>> /\ config.target_profile_url /= ""
           THEN /\ refresh' = [pc |-> "friend_fetch", rules |-> friend_rules,
                               infos |-> <<>>]
                /\ saved_rules' = saved_rules
           ELSE RefreshIndividualPart
    /\ UNCHANGED <<last_reply, outbox, config, rule_objs, monitoring_rules, friend_list_states,
                   steam_id_cache, friend, individual, resolver, procs, terminated,
                   calls, last_applied, appended>>

\* The except clause of force_refresh: the error is reported, nothing is saved.
RefreshHandler(ps) ==
    [cmd |-> [pc |-> "idle", rules |-> <<>>, infos |-> <<>>],
     procs |-> Abandon(ps, "refresh")]

\* fetch_html returned a page whose extraction raises.
RefreshPageMalformed ==
    /\ refresh.pc = "friend_fetch"
    /\ refresh' = RefreshHandler(procs).cmd
    /\ procs' = RefreshHandler(procs).procs
    /\ UNCHANGED <<last_reply, outbox, config, rule_objs, monitoring_rules, saved_rules, friend_list_states,
                   steam_id_cache, friend, individual, resolver, terminated,
                   passes, calls, last_applied, appended>>

\* fetch_html returned a page, or 403 or None (the old snapshot stays); the
\* friend rules are processed against the snapshot.
RefreshFriendFetched ==
    /\ refresh.pc = "friend_fetch"
    /\ \E page \in Snapshots \cup {friend_list_states}, t \in SchedulerClock,
          lookups \in [1..Len(refresh.rules) -> ProviderLookups] :
          \E infos \in {[i \in 1..Len(refresh.rules) |->
                            page[rule_objs[refresh.rules[i]].target_steam_id64]]} :
          \E d \in {Dispatch(refresh.rules, infos, t, lookups, "refresh")} :
          \E handled \in {RefreshHandler(d.procs)} :
              /\ friend_list_states' = page
              /\ rule_objs' = d.objs
              /\ calls' = d.calls
              /\ last_applied' = d.applied
              /\ IF d.raised
                 THEN refresh' = handled.cmd /\ procs' = handled.procs
                 ELSE refresh' = [refresh EXCEPT !.pc = "friend_gather"]
                      /\ procs' = d.procs
    /\ UNCHANGED <<last_reply, outbox, config, monitoring_rules, saved_rules, steam_id_cache, friend,
                   individual, resolver, terminated, passes, appended>>

\* The gather of the friend rules is done.
RefreshFriendGathered ==
    /\ refresh.pc = "friend_gather"
    /\ Gathered("refresh")
    /\ RefreshIndividualPart
    /\ UNCHANGED <<last_reply, outbox, config, rule_objs, monitoring_rules, friend_list_states,
                   steam_id_cache, friend, individual, resolver, procs, terminated,
                   passes, calls, last_applied, appended>>

\* get_single_player_status returned for the next individual rule.
RefreshIndividualFetched ==
    /\ refresh.pc = "individual_fetch"
    /\ \E info \in Infos \cup {NoInfo}, t \in SchedulerClock,
          lookups \in [1..Len(refresh.rules) -> ProviderLookups] :
          \E infos \in {Append(refresh.infos, info)} :
          \E d \in {Dispatch(refresh.rules, infos, t, lookups, "refresh")} :
          \E handled \in {RefreshHandler(d.procs)} :
              IF Len(infos) < Len(refresh.rules)
              THEN /\ refresh' = [refresh EXCEPT !.infos = infos]
                   /\ UNCHANGED <<rule_objs, calls, last_applied, procs>>
              ELSE /\ rule_objs' = d.objs
                   /\ calls' = d.calls
                   /\ last_applied' = d.applied
                   /\ IF d.raised
                      THEN refresh' = handled.cmd /\ procs' = handled.procs
                      ELSE /\ refresh' = [refresh EXCEPT !.pc = "individual_gather",
                                                         !.infos = infos]
                           /\ procs' = d.procs
    /\ UNCHANGED <<last_reply, outbox, config, monitoring_rules, saved_rules, friend_list_states,
                   steam_id_cache, friend, individual, resolver, terminated, passes,
                   appended>>

\* The gather of the individual rules is done: the rules are saved.
RefreshIndividualGathered ==
    /\ refresh.pc = "individual_gather"
    /\ Gathered("refresh")
    /\ saved_rules' = RulesDocument(rule_objs)
    /\ refresh' = [pc |-> "idle", rules |-> <<>>, infos |-> <<>>]
    /\ UNCHANGED <<last_reply, outbox, config, rule_objs, monitoring_rules, friend_list_states,
                   steam_id_cache, friend, individual, resolver, procs, terminated,
                   passes, calls, last_applied, appended>>

\* --------------------------------------------------- cache resolver loop
\* "timestamp" not in value or (now - value["timestamp"]) > interval
Stale(value, now) ==
    value.timestamp = NoTimestamp \/ now - value.timestamp > config.id_re_resolve_interval

\* The for loop over cache_copy from the keys still to visit: it stops at the
\* next stale entry, whose forced resolution is awaited, or runs to its end.
RECURSIVE ResolverScan(_, _, _)
ResolverScan(loop, todo, now) ==
    IF todo = <<>>
    THEN [loop EXCEPT !.pc = "sleep", !.sleep = "id_re_resolve_interval/2",
                      !.todo = <<>>, !.now = 0, !.updated_count = 0]
    ELSE IF Stale(steam_id_cache[Head(todo)], now)
    THEN [loop EXCEPT !.pc = "resolve", !.todo = Tail(todo), !.now = now,
                      !.key = Head(todo), !.resolved = Append(@, Head(todo))]
    ELSE ResolverScan(loop, Tail(todo), now)

\* The sleep ends and a pass over a copy of the cache begins.
ResolverWake ==
    /\ resolver.pc = "sleep"
    /\ passes < MaxPasses
    /\ passes' = passes + 1
    /\ \E t \in SchedulerClock :
          resolver' = ResolverScan([resolver EXCEPT !.resolved = <<>>], CacheKeys,
                                   IntTime(t))
    /\ UNCHANGED <<last_reply, outbox, config, rule_objs, monitoring_rules, saved_rules, friend_list_states,
                   steam_id_cache, friend, individual, refresh, procs, terminated,
                   calls, last_applied, appended>>

\* The except clause of the loop body with the sleep after it.
ResolverHandler(loop) ==
    [loop EXCEPT !.pc = "sleep", !.sleep = "id_re_resolve_interval/2",
                 !.todo = <<>>, !.now = 0, !.updated_count = 0, !.errors = @ + 1]

\* resolve_steam_url_to_id64(key, cache, force_re_resolve=True) ends: when
\* it returns the entry counts as updated and the loop pauses; when it raises
\* the pass is over.
ResolverResolved ==
    /\ resolver.pc = "resolve"
    /\ \E page \in ProfilePages :
       \E r \in {ResolveSteamUrlToId64(resolver.key, steam_id_cache, TRUE, page)} :
          /\ steam_id_cache' = r.cache
          /\ resolver' = [(IF r.status = "raised"
                           THEN ResolverHandler(resolver)
                           ELSE [resolver EXCEPT !.pc = "pause",
                                                 !.updated_count = @ + 1])
                          EXCEPT !.last = [key |-> resolver.key, page |-> page,
                                           status |-> r.status]]
    /\ UNCHANGED <<last_reply, outbox, config, rule_objs, monitoring_rules, saved_rules, friend_list_states,
                   friend, individual, refresh, procs, terminated,
                   passes, calls, last_applied, appended>>

\* The pause of 2 seconds ends and the for loop goes on.
ResolverPaused ==
    /\ resolver.pc = "pause"
    /\ resolver' = ResolverScan(resolver, resolver.todo, resolver.now)
    /\ UNCHANGED <<last_reply, outbox, config, rule_objs, monitoring_rules, saved_rules, friend_list_states,
                   steam_id_cache, friend, individual, refresh, procs, terminated,
                   passes, calls, last_applied, appended>>

\* -------------------------------------------------------------- terminate
\* task.cancel() on a task that is not done: CancelledError is raised at its
\* await, which no "except Exception" catches.
Cancel(loop) ==
    IF loop.pc \in {"returned", "ended"} THEN loop ELSE [loop EXCEPT !.pc = "cancelled"]

\* terminate(): the three tasks are cancelled; a cancelled gather cancels
\* the tasks it still waits for.
Terminate ==
    /\ ~terminated
    /\ terminated' = TRUE
    /\ friend' = Cancel(friend)
    /\ individual' = Cancel(individual)
    /\ resolver' = Cancel(resolver)
    /\ procs' = SelectSeq(procs, LAMBDA p :
                   ~(p.awaited /\ p.owner \in {"friend", "individual"}))
    /\ last_applied' = [rid \in DOMAIN last_applied |->
                          IF \E i \in 1..Len(procs) : procs[i].rule = rid
                          THEN Unapplied ELSE last_applied[rid]]
    /\ UNCHANGED <<last_reply, outbox, config, rule_objs, monitoring_rules, saved_rules, friend_list_states,
                   steam_id_cache, refresh, passes, calls, appended>>

\* ---------------------------------------------------------- specification
Next ==
    \/ FriendWake
    \/ FriendForbidden
    \/ FriendPageMalformed
    \/ FriendFetched
    \/ FriendGathered
    \/ IndividualWake
    \/ IndividualPoll
    \/ IndividualFetched
    \/ IndividualGathered
    \/ NotifyReturned
    \/ RefreshStart
    \/ RefreshPageMalformed
    \/ RefreshFriendFetched
    \/ RefreshFriendGathered
    \/ RefreshIndividualFetched
    \/ RefreshIndividualGathered
    \/ ResolverWake
    \/ ResolverResolved
    \/ ResolverPaused
    \/ Terminate

Spec == Init /\ [][Next]_vars


\* ------------------------------------------------- engine specification
\* The rule engine alone: _process_rule_update is called on one rule with
\* any observation at any clock reading, each call by the loop that owns the
\* rule once the call before it has ended; _notify_user returns at any
\* later reading.
FirstSecond == [sec |-> 1, frac |-> FALSE]

\* A rule after one session of "Go": started at second 1, stopped one
\* second later.
PlayedRule(rule) ==
    LET go == [present |-> TRUE, game |-> "Go", avatar_url |-> "avatar"]
        off == [present |-> TRUE, game |-> None, avatar_url |-> "avatar"]
        later == [sec |-> 2, frac |-> FALSE]
        started == FinalUpdate(
                     ProcessRuleUpdateSync(rule, go, FirstSecond, TRUE, "provider").rule,
                     go, None, FirstSecond)
    IN  FinalUpdate(ProcessRuleUpdateSync(started, off, later, TRUE, "provider").rule,
                    off, "Go", later)

\* Rule files found at start: a new rule without or with a game filter, or
\* a rule saved after a session.
EngineRuleFiles ==
    {<<LoadedRule(1, "individual", f, FirstSecond)>> : f \in {None, "CHESS"}}
    \cup {<<PlayedRule(LoadedRule(1, "individual", None, FirstSecond))>>}

InitEngine ==
    /\ config \in {c \in Configs : c.id_re_resolve_interval = 0}
    /\ \E file \in EngineRuleFiles :
          /\ rule_objs = [rid \in 1..Len(file) |-> file[rid]]
          /\ monitoring_rules = [i \in 1..Len(file) |-> i]
          /\ saved_rules = file
          /\ last_applied = [rid \in 1..Len(file) |-> Unapplied]
    /\ friend_list_states = [s \in SteamIds |-> NoInfo]
    /\ steam_id_cache = CacheFile
    /\ friend = [pc |-> "sleep", sleep |-> "startup", rules |-> <<>>,
                 errors |-> 0, alerts |-> 0, fetch |-> "none"]
    /\ individual = [pc |-> "sleep", sleep |-> "startup", rules |-> <<>>,
                     infos |-> <<>>, errors |-> 0]
    /\ resolver = ResolverFirstStep(config.id_re_resolve_interval)
    /\ refresh = [pc |-> "idle", rules |-> <<>>, infos |-> <<>>]
    /\ procs = <<>>
    /\ terminated = FALSE
    /\ passes = 0
    /\ calls = <<>>
    /\ appended = <<>>
    /\ outbox = NoRun
    /\ last_reply = NoReply

\* One call of _process_rule_update(rule, current_info) up to its first
\* suspension.
EngineCall ==
    /\ passes < MaxCalls
    /\ procs = <<>>
    /\ passes' = passes + 1
    /\ \E info \in Infos \cup {NoInfo}, t \in ClockReadings, lookup \in ProviderLookups :
          \E d \in {Dispatch(<<1>>, <<info>>, t, <<lookup>>, "engine")} :
              /\ rule_objs' = d.objs
              /\ calls' = d.calls
              /\ last_applied' = d.applied
              /\ procs' = d.procs
    /\ UNCHANGED <<last_reply, outbox, config, monitoring_rules, saved_rules, friend_list_states,
                   steam_id_cache, friend, individual, resolver, refresh, terminated,
                   appended>>

EngineNotifyReturned == NotifyReturnedAt(ClockReadings, {AllFine})

NextEngine == EngineCall \/ EngineNotifyReturned

SpecEngine == InitEngine /\ [][NextEngine]_vars

\* ------------------------------------------------ history specification
\* One rule driven through a long run of observations, each call awaited
\* to its end before the next, all within one second; appended logs the
\* arguments of every _add_event_to_history call.
HistoryClock == [sec |-> MaxSec, frac |-> FALSE]

InitHistory ==
    /\ InitEngine
    /\ rule_objs[1] = LoadedRule(1, "individual", None, FirstSecond)

\* appends stamped as _add_event_to_history stamps them.
Stamped(appends, t) ==
    [i \in 1..Len(appends) |->
        [timestamp |-> IntTime(t), type |-> appends[i].type,
         game |-> appends[i].game, duration |-> appends[i].duration]]

HistoryStep ==
    /\ Len(appended) < MaxAppends
    /\ \E info \in Infos :
          \E res \in {ProcessRuleUpdateSync(rule_objs[1], info, HistoryClock,
                                                config.enable_llm, "provider")} :
          \E ended \in {IF res.status = "suspended"
                         THEN FinalUpdate(res.rule, info, res.old_game_name, HistoryClock)
                         ELSE res.rule} :
              /\ rule_objs' = [rule_objs EXCEPT ![1] = ended]
              /\ appended' = appended \o Stamped(res.appends, HistoryClock)
    /\ UNCHANGED <<last_reply, outbox, config, monitoring_rules, saved_rules, friend_list_states,
                   steam_id_cache, friend, individual, resolver, refresh, procs,
                   terminated, passes, calls, last_applied>>

SpecHistory == InitHistory /\ [][HistoryStep]_vars

\* ----------------------------------------------- command specification
\* The two polling loops together with the add_rule and remove_rule
\* commands and terminate; the cache resolver is disabled and force_refresh
\* is not issued.  Each command counts as a pass, and no command arrives
\* after terminate.
SecondRule(kind) ==
    NewRule(2, "uid2", "id64_1", None, None, kind, [sec |-> 1, frac |-> FALSE])

\* Rule files found at start: no rule, one rule of either type, or two
\* friend-list rules watching the same player for two sessions (a second
\* individual rule comes from add_rule).
CommandRuleFiles ==
    {<<>>}
    \cup {<<LoadedRule(1, k, None, [sec |-> 1, frac |-> FALSE])>> :
        k \in {"friend_list", "individual"}}
    \cup {<<LoadedRule(1, "friend_list", None, [sec |-> 1, frac |-> FALSE]),
            SecondRule("friend_list")>>}

InitCommands ==
    /\ config \in {c \in Configs : c.id_re_resolve_interval = 0}
    /\ \E file \in CommandRuleFiles :
          /\ rule_objs = [rid \in 1..Len(file) |-> file[rid]]
          /\ monitoring_rules = [i \in 1..Len(file) |-> i]
          /\ saved_rules = file
          /\ last_applied = [rid \in 1..Len(file) |-> Unapplied]
    /\ friend_list_states = [s \in SteamIds |-> NoInfo]
    /\ steam_id_cache = CacheFile
    /\ friend = [pc |-> "sleep", sleep |-> "startup", rules |-> <<>>,
                 errors |-> 0, alerts |-> 0, fetch |-> "none"]
    /\ individual = [pc |-> "sleep", sleep |-> "startup", rules |-> <<>>,
                     infos |-> <<>>, errors |-> 0]
    /\ resolver = ResolverFirstStep(config.id_re_resolve_interval)
    /\ refresh = [pc |-> "idle", rules |-> <<>>, infos |-> <<>>]
    /\ procs = <<>>
    /\ terminated = FALSE
    /\ passes = 0
    /\ calls = <<>>
    /\ appended = <<>>
    /\ outbox = NoRun
    /\ last_reply = NoReply

\* What the user types as steam_profile_input and notification_uid: two
\* spellings of a player found in the identity cache and a name that is not
\* in it.
ProfileInputs == {"alice", "https://steamcommunity.com/id/alice/", "dave"}

NotificationUids == {"uid", "uid2"}

\* A variant of the duplicate test that finds nothing.
IsDuplicateMutantNever(steam_id64, notification_uid) == FALSE

\* any(r["target_steam_id64"] == steam_id64 and r["notification_uid"] ==
\* notification_uid for r in self.monitoring_rules)
IsDuplicate(steam_id64, notification_uid) ==
    \E i \in 1..Len(monitoring_rules) :
       /\ rule_objs[monitoring_rules[i]].target_steam_id64 = steam_id64
       /\ rule_objs[monitoring_rules[i]].notification_uid = notification_uid

\* A variant that goes on to the rule creation when no ID was resolved.
AddRuleAfterResolveMutantAddsAnyway(r, notification_uid, avatar_url, t) ==
    LET new_rule == NewRule(Len(rule_objs) + 1, notification_uid, r.id64, avatar_url,
                            None, "individual", t)
    IN  [reply |-> [command |-> "add_rule", result |-> "added"],
         objs |-> Append(rule_objs, new_rule),
         rules |-> Append(monitoring_rules, Len(rule_objs) + 1),
         saved |-> Append(RulesDocument(rule_objs), new_rule),
         applied |-> Append(last_applied, Unapplied)]

\* add_rule from the return of resolve_steam_url_to_id64 (result r) to its
\* end: what it tells the caller, and the rule dicts, the rule list and the
\* rules file after it.  An exception of the resolution leaves the command
\* at once.
AddRuleAfterResolve(r, notification_uid, avatar_url, t) ==
    LET unchanged == [objs |-> rule_objs, rules |-> monitoring_rules,
                      saved |-> saved_rules, applied |-> last_applied]
        monitoring_type == IF r.id64 \in friend_list_cache
                           THEN "friend_list" ELSE "individual"
        new_rule == NewRule(Len(rule_objs) + 1, notification_uid, r.id64, avatar_url,
                            None, monitoring_type, t)
    IN  IF r.status = "raised"
        THEN [reply |-> [command |-> "add_rule", result |-> "exception"]] @@ unchanged
        ELSE IF ~Truthy(r.id64)
        THEN [reply |-> [command |-> "add_rule", result |-> "error: not resolved"]]
             @@ unchanged
        ELSE IF IsDuplicate(r.id64, notification_uid)
        THEN [reply |-> [command |-> "add_rule", result |-> "warning: already monitored"]]
             @@ unchanged
        ELSE IF monitoring_type = "friend_list" /\ config.target_profile_url = ""
        THEN [reply |-> [command |-> "add_rule", result |-> "error: no target url"]]
             @@ unchanged
        ELSE [reply |-> [command |-> "add_rule", result |-> "added"],
              objs |-> Append(rule_objs, new_rule),
              rules |-> Append(monitoring_rules, Len(rule_objs) + 1),
              saved |-> Append(RulesDocument(rule_objs), new_rule),
              applied |-> Append(last_applied, Unapplied)]

\* add_rule after its first reply.  For an input found in the identity
\* cache resolve_steam_url_to_id64 returns without suspending; for any other
\* input it fetches the profile page and reads nothing of the plugin's state
\* before the fetch has ended.  avatar_url is the avatar reference of the
\* cache entry.  The reply is kept with the normalized input, the page the
\* resolution fetched (if it fetched one) and with listed: whether the
\* target's friends page shows the resolved player at this moment, which the
\* command does not look up.
AddRule ==
    /\ ~terminated
    /\ passes < MaxPasses
    /\ passes' = passes + 1
    /\ \E steam_profile_input \in ProfileInputs, notification_uid \in NotificationUids,
          avatar_url \in {None, "avatar"}, t \in SchedulerClock, listed \in BOOLEAN :
          \E page \in IF Normalize(steam_profile_input) \in DOMAIN steam_id_cache
                       THEN {[fetched |-> FALSE, id64 |-> None]} ELSE ProfilePages :
          \E r \in {ResolveSteamUrlToId64(steam_profile_input, steam_id_cache, FALSE,
                                          page)} :
          \E done \in {AddRuleAfterResolve(r, notification_uid, avatar_url, t)} :
              /\ steam_id_cache' = r.cache
              /\ rule_objs' = done.objs
              /\ monitoring_rules' = done.rules
              /\ last_applied' = done.applied
              /\ saved_rules' = done.saved
              /\ last_reply' = done.reply @@ [page |-> page,
                                               key |-> Normalize(steam_profile_input),
                                               listed |-> Truthy(r.id64) /\ listed]
    /\ UNCHANGED <<outbox, config, friend_list_states, friend, individual,
                   resolver, refresh, procs, terminated, calls, appended>>

\* Rule-id prefixes the user types: the id of a rule ever created, or a
\* prefix no rule has (0).
RuleIdPrefixes == 0..Len(rule_objs)

\* remove_rule: the first rule of the list whose rule_id starts with the
\* prefix leaves the list (coroutines that hold the dict keep it) and the
\* collection is saved; without such a rule nothing changes.
RemoveRule ==
    /\ ~terminated
    /\ passes < MaxPasses
    /\ passes' = passes + 1
    /\ \E rule_id_prefix \in RuleIdPrefixes :
          IF \E i \in 1..Len(monitoring_rules) : monitoring_rules[i] = rule_id_prefix
          THEN \E i \in 1..Len(monitoring_rules) :
                  /\ monitoring_rules[i] = rule_id_prefix
                  /\ monitoring_rules' = RemoveAt(monitoring_rules, i)
                  /\ saved_rules' = [j \in 1..Len(monitoring_rules') |->
                                        rule_objs[monitoring_rules'[j]]]
                  /\ last_reply' = [command |-> "remove_rule", result |-> "removed"]
          ELSE /\ last_reply' = [command |-> "remove_rule", result |-> "not found"]
               /\ UNCHANGED <<monitoring_rules, saved_rules>>
    /\ UNCHANGED <<outbox, config, rule_objs, friend_list_states, steam_id_cache, friend,
                   individual, resolver, refresh, procs, terminated, calls,
                   last_applied, appended>>

NextCommands ==
    \/ FriendWake
    \/ FriendForbidden
    \/ FriendPageMalformed
    \/ FriendFetched
    \/ FriendGathered
    \/ IndividualWake
    \/ IndividualPoll
    \/ IndividualFetched
    \/ IndividualGathered
    \/ NotifyReturned
    \/ AddRule
    \/ RemoveRule
    \/ Terminate

SpecCommands == InitCommands /\ [][NextCommands]_vars

\* ------------------------------------------------ liveness specification
\* The two polling loops and terminate, without commands, under the
\* scheduling of the asyncio event loop: a sleep that is over ends, an
\* awaited fetch returns, a _notify_user that is awaited returns, and a
\* coroutine that can run is run.  terminate may come at any time or never.
NextLoops ==
    \/ FriendWake
    \/ FriendForbidden
    \/ FriendPageMalformed
    \/ FriendFetched
    \/ FriendGathered
    \/ IndividualWake
    \/ IndividualPoll
    \/ IndividualFetched
    \/ IndividualGathered
    \/ NotifyReturned
    \/ Terminate

\* The plugin starts with one rule of either type.
InitLive ==
    /\ InitCommands
    /\ Len(monitoring_rules) = 1

SpecLive ==
    /\ InitLive
    /\ [][NextLoops]_vars
    /\ WF_vars(FriendWake)
    /\ WF_vars(FriendForbidden \/ FriendPageMalformed \/ FriendFetched)
    /\ WF_vars(FriendGathered)
    /\ WF_vars(IndividualWake)
    /\ WF_vars(IndividualPoll)
    /\ WF_vars(IndividualFetched)
    /\ WF_vars(IndividualGathered)
    /\ WF_vars(NotifyReturned)

\* ---------------------------------------------- notifier specification
\* _process_rule_update called on one rule, each call after the call before
\* it has ended, with LLM summaries and meme notifications switched on or
\* off, observations with or without an avatar, and every outcome of the
\* collaborators of _notify_user.
NotifyConfigs ==
    [target_profile_url : {"https://steamcommunity.com/id/owner"},
     enable_llm : BOOLEAN,
     use_meme_notification : BOOLEAN,
     id_re_resolve_interval : {0}]

NotifyInfos == [present : {TRUE}, game : Games \cup {None}, avatar_url : {"avatar", None}]

InitNotify ==
    /\ config \in NotifyConfigs
    /\ \E file \in {<<LoadedRule(1, "individual", f, FirstSecond)>> : f \in {None, "CHESS"}} :
          /\ rule_objs = [rid \in 1..Len(file) |-> file[rid]]
          /\ monitoring_rules = [i \in 1..Len(file) |-> i]
          /\ saved_rules = file
          /\ last_applied = [rid \in 1..Len(file) |-> Unapplied]
    /\ friend_list_states = [s \in SteamIds |-> NoInfo]
    /\ steam_id_cache = CacheFile
    /\ friend = [pc |-> "sleep", sleep |-> "startup", rules |-> <<>>,
                 errors |-> 0, alerts |-> 0, fetch |-> "none"]
    /\ individual = [pc |-> "sleep", sleep |-> "startup", rules |-> <<>>,
                     infos |-> <<>>, errors |-> 0]
    /\ resolver = ResolverFirstStep(config.id_re_resolve_interval)
    /\ refresh = [pc |-> "idle", rules |-> <<>>, infos |-> <<>>]
    /\ procs = <<>>
    /\ terminated = FALSE
    /\ passes = 0
    /\ calls = <<>>
    /\ appended = <<>>
    /\ outbox = NoRun
    /\ last_reply = NoReply

\* One call of _process_rule_update(rule, current_info) up to its first
\* suspension.
NotifierCall ==
    /\ passes < MaxCalls
    /\ procs = <<>>
    /\ passes' = passes + 1
    /\ \E info \in NotifyInfos \cup {NoInfo}, t \in SchedulerClock,
          lookup \in ProviderLookups :
          \E d \in {Dispatch(<<1>>, <<info>>, t, <<lookup>>, "engine")} :
              /\ rule_objs' = d.objs
              /\ calls' = d.calls
              /\ last_applied' = d.applied
              /\ procs' = d.procs
    /\ UNCHANGED <<last_reply, outbox, config, monitoring_rules, saved_rules, friend_list_states,
                   steam_id_cache, friend, individual, resolver, refresh, terminated,
                   appended>>

NotifierReturned == NotifyReturnedAt(SchedulerClock, NotifyOutcomes)

NextNotify == NotifierCall \/ NotifierReturned

SpecNotify == InitNotify /\ [][NextNotify]_vars

\* ================================================================ properties
\* The call records of the latest dispatch.
CallIndices == 1..Len(calls)

\* The call saw a present observation naming a game that differs from the
\* non-empty game the rule knew.
IsSwitch(c) ==
    /\ c.info.present
    /\ Truthy(c.info.game)
    /\ Truthy(c.pre.last_known_game_name)
    /\ c.info.game /= c.pre.last_known_game_name

\* The call saw a present observation without a game while the rule knew one.
IsStop(c) ==
    /\ c.info.present
    /\ ~Truthy(c.info.game)
    /\ Truthy(c.pre.last_known_game_name)

\* The first n entries of a history (all of it when it is shorter).
Newest(history, n) == SubSeq(history, 1, IF Len(history) < n THEN Len(history) ELSE n)

\* History entries without their timestamps.
Unstamped(history) ==
    [i \in 1..Len(history) |-> [type |-> history[i].type, game |-> history[i].game,
                                duration |-> history[i].duration]]

\* Sum of the durations of the "stop" entries of appends.
RECURSIVE StopSeconds(_)
StopSeconds(appends) ==
    IF appends = <<>> THEN 0
    ELSE (IF Head(appends).type = "stop" THEN Head(appends).duration ELSE 0)
         + StopSeconds(Tail(appends))

\* ------------------------------------------------------------------- C1
\* C1: when an observation names a game B while the rule knows another
\* non-empty game A, the call prepends exactly two history entries, "stop" of
\* A with its duration and above it "start" of B with duration 0, and the
\* one notification it hands over is the start of B.
C1_SwitchRecordsStopThenStart ==
    \A i \in CallIndices :
       LET c == calls[i]
           old == c.pre.last_known_game_name
       IN  IsSwitch(c) =>
             /\ Len(c.appends) = 2
             /\ c.appends[1].type = "stop" /\ c.appends[1].game = old
             /\ c.appends[2] = [type |-> "start", game |-> c.info.game, duration |-> 0]
             /\ Unstamped(Newest(c.post.event_history, 2)) = <<c.appends[2], c.appends[1]>>
             /\ c.event.type = "start" /\ c.event.game = c.info.game
             /\ c.event.duration = 0

\* ------------------------------------------------------------------- C2
\* C2: whenever no _process_rule_update call is in progress on a rule, its
\* current_game_start_timestamp is positive exactly when its
\* last_known_game_name is non-empty.
C2_StartStampIffGameKnown ==
    \A rid \in DOMAIN rule_objs :
       (\A i \in 1..Len(procs) : procs[i].rule /= rid) =>
          (rule_objs[rid].current_game_start_timestamp > 0
             <=> Truthy(rule_objs[rid].last_known_game_name))

\* ------------------------------------------------------------------- C3
\* C3: a call whose observation is the one the call before it applied (no
\* other call on the rule in between) ends at once, appends no history
\* entry, hands over no notification and leaves total_playtime_today (apart
\* from the daily reset), current_game_start_timestamp and
\* last_state_change_timestamp as they were.
C3_RepeatedObservationAddsNothing ==
    \A i \in CallIndices :
       LET c == calls[i]
       IN  c.prev = c.info =>
             /\ c.status = "returned"
             /\ c.appends = <<>>
             /\ c.event = NoEvent
             /\ c.post.event_history = c.pre.event_history
             /\ c.post.total_playtime_today =
                  (IF c.pre.last_reset_day /= TodayStr(c.t) THEN 0
                   ELSE c.pre.total_playtime_today)
             /\ c.post.current_game_start_timestamp = c.pre.current_game_start_timestamp
             /\ c.post.last_state_change_timestamp = c.pre.last_state_change_timestamp

\* A game observed twice in a row, the second time while a session is open.
C3_Witness ==
    \E i \in CallIndices :
       /\ calls[i].prev = calls[i].info
       /\ Truthy(calls[i].info.game)
       /\ calls[i].pre.current_game_start_timestamp > 0
       /\ calls[i].post = calls[i].pre

\* ------------------------------------------------------------------- C4
\* C4: a rule that knows a game and holds the start timestamp T0 > 0, seeing
\* at a reading T1 >= T0 of the same day an observation without a game, has
\* total_playtime_today raised by T1 - T0, gets {stop, old game, T1 - T0} as
\* newest history entry, has current_game_start_timestamp 0 and hands over
\* one stop notification with that duration.
C4_StopClosesSession ==
    \A i \in CallIndices :
       LET c == calls[i]
           T0 == c.pre.current_game_start_timestamp
           d == c.t.sec - T0
       IN  (IsStop(c) /\ T0 > 0 /\ c.t.sec >= T0
              /\ c.pre.last_reset_day = TodayStr(c.t)) =>
             /\ c.post.total_playtime_today = c.pre.total_playtime_today + d
             /\ Len(c.post.event_history) >= 1
             /\ c.post.event_history[1] =
                  [timestamp |-> c.t.sec, type |-> "stop",
                   game |-> c.pre.last_known_game_name, duration |-> d]
             /\ Len(c.appends) = 1
             /\ c.post.current_game_start_timestamp = 0
             /\ c.event = [type |-> "stop", game |-> c.pre.last_known_game_name,
                           duration |-> d, avatar_url |-> c.info.avatar_url]

\* A session of positive length closed on the day it began.
C4_Witness ==
    \E i \in CallIndices :
       /\ IsStop(calls[i])
       /\ calls[i].pre.current_game_start_timestamp > 0
       /\ calls[i].t.sec > calls[i].pre.current_game_start_timestamp
       /\ calls[i].pre.last_reset_day = TodayStr(calls[i].t)
       /\ calls[i].post.total_playtime_today > calls[i].pre.total_playtime_today

\* ------------------------------------------------------------------- C5
\* C5: for every stop or switch, whatever the clock reading is relative to
\* the stored current_game_start_timestamp, the duration written to the
\* history, added to total_playtime_today and handed to the notification is
\* not negative.
C5_DurationsNeverNegative ==
    \A i \in CallIndices :
       LET c == calls[i]
       IN  (IsStop(c) \/ IsSwitch(c)) =>
             /\ \A j \in 1..Len(c.appends) : c.appends[j].duration >= 0
             /\ c.event.duration >= 0
             /\ c.post.total_playtime_today >=
                  (IF c.pre.last_reset_day /= TodayStr(c.t) THEN 0
                   ELSE c.pre.total_playtime_today)

\* ------------------------------------------------------------------- C6
\* C6: a call made on the day the rule was last reset never lowers
\* total_playtime_today; the total goes back to 0 only in a call made on
\* another day, which also moves last_reset_day to that day so that the
\* reset happens once per change of day.
C6_PlaytimeNeverDecreasesWithinDay ==
    \A i \in CallIndices :
       LET c == calls[i]
           rollover == c.pre.last_reset_day /= TodayStr(c.t)
       IN  /\ ~rollover =>
                c.post.total_playtime_today >= c.pre.total_playtime_today
           /\ rollover => c.post.last_reset_day = TodayStr(c.t)

\* ------------------------------------------------------------------- C7
\* C7: a call on a rule whose last_reset_day is not today sets last_reset_day
\* to today and restarts total_playtime_today from 0 before anything else,
\* so that the total it leaves is what the call itself added; with no
\* activity change the total is 0, and with an absent observation nothing
\* else of the rule changes.
C7_DayRolloverFirst ==
    \A i \in CallIndices :
       LET c == calls[i]
           unchanged == ~c.info.present \/ c.info.game = c.pre.last_known_game_name
       IN  c.pre.last_reset_day /= TodayStr(c.t) =>
             /\ c.post.last_reset_day = TodayStr(c.t)
             /\ c.post.total_playtime_today = StopSeconds(c.appends)
             /\ unchanged => c.post.total_playtime_today = 0
             /\ ~c.info.present =>
                  c.post = [c.pre EXCEPT !.total_playtime_today = 0,
                                         !.last_reset_day = TodayStr(c.t)]

\* A rule with playtime from an earlier day is called with no observation.
C7_Witness ==
    \E i \in CallIndices :
       /\ calls[i].pre.last_reset_day /= TodayStr(calls[i].t)
       /\ calls[i].pre.total_playtime_today > 0
       /\ ~calls[i].info.present
       /\ calls[i].post.total_playtime_today = 0

\* ------------------------------------------------------------------- C8
\* C8: event_history never holds more than 10 entries, and it is, newest
\* first, exactly the latest entries appended: all of them up to 10, the 10
\* newest beyond that.
C8_HistoryBoundedNewestFirst ==
    LET history == rule_objs[1].event_history
        n == Len(appended)
        kept == IF n < HistoryLimit THEN n ELSE HistoryLimit
    IN  /\ Len(history) <= HistoryLimit
        /\ history = [i \in 1..kept |-> appended[n - i + 1]]

\* Eleven entries were appended: the oldest is gone, ten remain.
C8_Witness ==
    /\ Len(appended) = HistoryLimit + 1
    /\ Len(rule_objs[1].event_history) = HistoryLimit
    /\ rule_objs[1].event_history[HistoryLimit] = appended[2]
    /\ appended[1] /= appended[2]

\* ------------------------------------------------------------------- C9
\* C9: at no time are two _process_rule_update calls in progress on the
\* same rule, whichever of the friend-list loop, the individual loop and
\* force_refresh made them.
C9_NoConcurrentRuleUpdate ==
    \A i, j \in 1..Len(procs) : i /= j => procs[i].rule /= procs[j].rule

\* ------------------------------------------------------------------ C10
\* A loop is at none of the awaits of its body: its task is done.
Stopped(loop) == loop.pc \notin {"sleep", "presleep", "fetch", "gather", "resolve", "pause"}

\* C10: a pass that raises leaves its loop in the sleep that precedes the
\* next pass, and the task of a loop is done only after terminate cancelled
\* it or, for the cache resolver, when the configuration disables it.
C10_LoopsSurviveErrors ==
    /\ [](/\ Stopped(friend) => terminated
          /\ Stopped(individual) => terminated
          /\ Stopped(resolver) => (terminated \/ config.id_re_resolve_interval <= 0))
    /\ [][/\ friend'.errors > friend.errors => friend'.pc = "sleep"
          /\ individual'.errors > individual.errors => individual'.pc = "sleep"
          /\ resolver'.errors > resolver.errors => resolver'.pc = "sleep"]_vars

\* A loop whose pass raised has begun another pass.
C10_Witness ==
    /\ ~terminated
    /\ \/ friend.errors > 0 /\ friend.pc = "fetch"
       \/ individual.errors > 0 /\ individual.pc = "fetch"
       \/ resolver.errors > 0 /\ resolver.pc = "resolve"

\* ------------------------------------------------------------------ C19
\* The keys of a sequence.
Range(seq) == {seq[i] : i \in 1..Len(seq)}

\* C19: when a pass of the cache-resolver loop ends, the entries it forced
\* to re-resolve are exactly the entries of the cache that have no timestamp
\* or whose timestamp lies more than the configured interval before the
\* reading taken at the start of the pass.
C19_SweepResolvesExactlyStaleEntries ==
    [][(resolver.pc \in {"resolve", "pause"} /\ resolver'.pc = "sleep") =>
          \A i \in 1..Len(CacheKeys) :
             LET entry == steam_id_cache[CacheKeys[i]]
             IN  (CacheKeys[i] \in Range(resolver'.resolved))
                   <=> (entry.timestamp = NoTimestamp
                        \/ resolver.now - entry.timestamp > config.id_re_resolve_interval)]_vars

\* ------------------------------------------------------------------ C20
\* C20: once resolve_steam_url_to_id64 has fetched a profile page and found
\* an ID in it, the call has returned and the cache entry of the normalized
\* identifier holds that ID and a timestamp.
C20_CacheWrittenOnSuccess ==
    (resolver.last.page.fetched /\ Truthy(resolver.last.page.id64)) =>
       /\ resolver.last.status = "returned"
       /\ steam_id_cache[Normalize(resolver.last.key)].id64 = resolver.last.page.id64
       /\ steam_id_cache[Normalize(resolver.last.key)].timestamp /= NoTimestamp

\* ------------------------------------------------------------------ C14
\* C14: the step of the friend-list loop that handles a 403 answer makes one
\* _notify_admins call, calls no _process_rule_update, changes no rule, leaves
\* the snapshot as it was and saves nothing; no other step calls
\* _notify_admins.
C14_ForbiddenAlertsOnceAndTouchesNothing ==
    [][/\ (friend.pc = "fetch" /\ friend'.pc = "sleep"
             /\ friend'.sleep = "friend_list_interval*5") =>
            /\ friend'.alerts = friend.alerts + 1
            /\ UNCHANGED <<rule_objs, friend_list_states, saved_rules, calls, procs,
                           appended>>
       /\ friend'.alerts /= friend.alerts =>
            (friend.pc = "fetch" /\ friend'.sleep = "friend_list_interval*5")]_vars

\* The loop backs off after a 403 answer, its alert sent.
C14_Witness ==
    /\ friend.pc = "sleep"
    /\ friend.sleep = "friend_list_interval*5"
    /\ friend.alerts = 1

\* ------------------------------------------------------------------ C12
\* C12: when a pass of the friend-list loop or of the individual loop that
\* processed its rules ends (by its gather completing, or in the step in
\* which the processing of a rule raised after rules were changed), the
\* saved rule collection equals the collection in memory.
C12_PassEndsWithRulesSaved ==
    [][/\ (friend.pc \in {"fetch", "gather"} /\ friend'.pc = "sleep"
             /\ friend'.sleep /= "friend_list_interval*5"
             /\ (friend.pc = "gather" \/ rule_objs' /= rule_objs)) =>
            saved_rules' = RulesDocument(rule_objs')
       /\ (individual.pc \in {"fetch", "gather"}
             /\ individual'.pc \in {"sleep", "presleep"}
             /\ (individual.pc = "gather" \/ rule_objs' /= rule_objs)) =>
            saved_rules' = RulesDocument(rule_objs')]_vars

\* The call c applied its observation to the rule as _process_rule_update
\* does up to the point its status tells.
Processed(c) ==
    LET reset == DayRollover(c.pre, c.t)
        change == StateChange(reset, c.info, c.t)
    IN  IF ~c.info.present THEN c.post = reset /\ c.status = "returned"
        ELSE c.post = IF c.status = "returned"
                      THEN FinalUpdate(change.rule, c.info, reset.last_known_game_name, c.t)
                      ELSE change.rule

\* The dispatch recorded in cs called _process_rule_update once for every
\* rule of the list rules, each with the observation of infos, and a call
\* that is suspended is among the coroutines ps.
Covered(rules, infos, cs, ps) ==
    /\ Len(cs) = Len(rules)
    /\ \A i \in 1..Len(rules) :
          /\ cs[i].rule_id = rules[i]
          /\ cs[i].info = infos[i]
          /\ Processed(cs[i])
          /\ cs[i].status = "suspended" =>
                \E j \in 1..Len(ps) : ps[j].rule = rules[i] /\ ps[j].info = infos[i]

\* C11: per-rule error isolation.  In every pass of the friend-list loop
\* and of the individual loop each rule of the pass is processed with its
\* observation, whether or not the processing of another rule of the pass
\* raised; in the individual loop the status of every rule is fetched also
\* after a fetch that gave nothing; and a coroutine whose gather has raised
\* stays until its _notify_user returns and it ends with its final update.
C11_SiblingsStillProcessed ==
    [][/\ (friend.pc = "fetch" /\ friend'.pc \in {"gather", "sleep"}
             /\ (calls' /= calls \/ friend'.pc = "gather")) =>
             Covered(friend.rules,
                     [i \in 1..Len(friend.rules) |->
                        friend_list_states'[rule_objs[friend.rules[i]].target_steam_id64]],
                     calls', procs')
       /\ (individual.pc = "fetch" /\ individual'.pc = "fetch"
             /\ individual' /= individual) =>
             /\ Len(individual'.infos) = Len(individual.infos) + 1
             /\ Len(individual'.infos) < Len(individual.rules)
       /\ (individual.pc = "fetch" /\ individual'.pc \in {"gather", "sleep"}) =>
             /\ Len(individual.infos) = Len(individual.rules) - 1
             /\ \E info \in Infos \cup {NoInfo} :
                   Covered(individual.rules, Append(individual.infos, info),
                           calls', procs')
       /\ \A i \in 1..Len(procs) :
             ~procs[i].awaited =>
                \/ \E j \in 1..Len(procs') :
                      /\ procs'[j].rule = procs[i].rule
                      /\ procs'[j].info = procs[i].info
                      /\ ~procs'[j].awaited
                \/ \E t \in SchedulerClock :
                      rule_objs'[procs[i].rule] =
                          FinalUpdate(rule_objs[procs[i].rule], procs[i].info,
                                      procs[i].old_game_name, t)]_vars

\* C11 witness: a pass over two rules in which the processing of the first
\* rule raised and the second rule got its start entry and waits in
\* _notify_user, no longer awaited by the loop.
C11_Witness ==
    /\ Len(calls) = 2
    /\ calls[1].owner \in {"friend", "individual"}
    /\ calls[1].status = "raised"
    /\ calls[2].status = "suspended"
    /\ calls[2].post.event_history /= calls[2].pre.event_history
    /\ \E j \in 1..Len(procs) : procs[j].rule = calls[2].rule_id /\ ~procs[j].awaited

\* C13: partial mutations of an aborted pass are never persisted.  When
\* terminate cancels a pass of a loop while a _process_rule_update of that
\* pass still waits in _notify_user, the rule of that coroutine, as the
\* pass has changed it so far, is not in the persisted collection.
C13_AbortedPassNeverPersisted ==
    [][(~terminated /\ terminated') =>
          \A i \in 1..Len(procs) :
             (procs[i].awaited /\ procs[i].owner \in {"friend", "individual"}) =>
                \A j \in 1..Len(saved_rules) :
                   saved_rules[j].rule_id = procs[i].rule =>
                      saved_rules[j] /= rule_objs[procs[i].rule]]_vars

\* The tier the rules with the ids rids call for, given the rule dicts objs.
TierOf(rids, objs) ==
    LET ingame == {i \in 1..Len(rids) : objs[rids[i]].last_known_game_name /= None}
        online == {i \in 1..Len(rids) : objs[rids[i]].target_steam_avatar_url /= None}
    IN  CASE ingame /= {} -> "ind_ingame_interval"
          [] ingame = {} /\ online /= {} -> "ind_online_interval"
          [] ingame = {} /\ online = {} -> "ind_offline_interval"

\* C15: scheduler tier selection.  When the individual loop starts the
\* sleep before a poll, it has a non-empty list of individual rules and the
\* sleep is the in-game interval if a rule of the list has a known game,
\* else the online interval if a rule has an avatar reference, else the
\* offline interval; the sleep is not changed while it lasts, and a poll
\* starts only at the end of that sleep.
C15_SleepsTheTierBeforePolling ==
    [][/\ (individual'.pc = "presleep" /\ individual.pc /= "presleep") =>
             /\ individual'.rules /= <<>>
             /\ individual'.rules =
                    SelectSeq(monitoring_rules',
                              LAMBDA id : rule_objs'[id].monitoring_type = "individual")
             /\ individual'.sleep = TierOf(individual'.rules, rule_objs')
       /\ (individual.pc = "presleep" /\ individual'.pc \in {"presleep", "fetch"}) =>
             /\ individual'.sleep = individual.sleep
             /\ individual'.rules = individual.rules
       /\ (individual'.pc = "fetch" /\ individual.pc /= "fetch") =>
             individual.pc = "presleep"]_vars

\* C15 witness: the loop sleeps the online interval before a poll of two
\* rules of which none is in a game and exactly one has an avatar reference.
C15_Witness ==
    /\ individual.pc = "presleep"
    /\ individual.sleep = "ind_online_interval"
    /\ Len(individual.rules) = 2
    /\ \A i \in 1..2 : rule_objs[individual.rules[i]].last_known_game_name = None
    /\ rule_objs[individual.rules[1]].target_steam_avatar_url = None
    /\ rule_objs[individual.rules[2]].target_steam_avatar_url /= None

\* The event of call c went to _notify_user and passed the rule's filter.
PassedFilter(c) ==
    c.event.type /= "none" /\ FilterPasses(c.pre.game_name_to_monitor, c.event.game)

\* The chain the fallback order calls for: the meme image, else the
\* rendered card, else plain text.
ChainKind(event, o) ==
    CASE config.use_meme_notification /\ event.avatar_url /= None /\ o.meme = "path"
           -> "Image(meme_path)"
      [] ~(config.use_meme_notification /\ event.avatar_url /= None /\ o.meme = "path")
         /\ event.avatar_url /= None /\ o.render = "path"
           -> "Image(image_path)"
      [] OTHER -> "Plain"

\* C16: rendering fallback chain.  Every event that _process_rule_update
\* hands to _notify_user and that passes the game filter gets a _notify_user
\* run that goes on to its send, and a run that ends has made exactly one
\* send_message attempt, to the rule's session, with the meme image if meme
\* notifications are on, the event has an avatar and the meme was made,
\* else the rendered card if the event has an avatar and the render
\* succeeded, else the text.
C16_OneDispatchPerPassingEvent ==
    [][/\ passes' = passes + 1 =>
             \A i \in 1..Len(calls') :
                PassedFilter(calls'[i]) =>
                   /\ calls'[i].status = "suspended"
                   /\ \E j \in 1..Len(procs') : procs'[j].event = calls'[i].event
       /\ Len(procs') < Len(procs) =>
             /\ Len(outbox'.sends) = 1
             /\ outbox'.sends[1].uid = rule_objs[outbox'.rule].notification_uid
             /\ outbox'.sends[1].chain.kind = ChainKind(outbox'.event, outbox'.outcome)
             /\ outbox'.sends[1].chain.message.text /= ""]_vars

\* C17: game filter.  A call whose event does not contain the rule's
\* filter ends at once with the full state update (observed game, change
\* timestamp, start timestamp, playtime and history as the transition sets
\* them), no _notify_user run calls a collaborator or sends for it; a call
\* whose event passes the filter gets a _notify_user run that goes on to
\* its send and makes one send_message attempt.
C17_FilterSuppressesOnlyTheNotification ==
    [][/\ passes' = passes + 1 =>
             \A i \in 1..Len(calls') :
                \E c \in {calls'[i]} :
                   /\ (c.event.type /= "none" /\ ~PassedFilter(c)) =>
                         /\ c.status = "returned"
                         /\ outbox' = outbox
                         /\ procs' = procs
                         /\ \A lookup \in ProviderLookups, o \in NotifyOutcomes :
                               \E run \in {NotifyUserRun(c.pre, c.event, config.enable_llm,
                                                          config.use_meme_notification,
                                                          lookup, o)} :
                                  run.called = <<>> /\ run.sends = <<>>
                         /\ c.post = FinalUpdate(
                                         StateChange(DayRollover(c.pre, c.t), c.info, c.t).rule,
                                         c.info, c.pre.last_known_game_name, c.t)
                         /\ c.post.last_known_game_name = c.info.game
                         /\ c.post.event_history /= c.pre.event_history
                   /\ PassedFilter(c) => c.status = "suspended"
       /\ Len(procs') < Len(procs) => Len(outbox'.sends) = 1]_vars

\* C18: dispatch and enrichment failures never reach the scheduler.  For
\* every _process_rule_update that waits in _notify_user and every outcome
\* in which text_chat or send_message raises, _notify_user returns normally
\* after one send_message attempt, and when text_chat raised the text it
\* sends is the base text without a completion; and when _notify_user has
\* returned, the rule holds the observed game as last_known_game_name and
\* the time of the return as last_state_change_timestamp.
C18_CollaboratorFailuresAreCaught ==
    [][/\ \A j \in 1..Len(procs'), o \in NotifyOutcomes :
             (o.llm = "raises" \/ o.send = "raises") =>
                \E run \in {NotifyUserRun(rule_objs'[procs'[j].rule], procs'[j].event,
                                           config.enable_llm, config.use_meme_notification,
                                           procs'[j].lookup, o)} :
                   /\ run.status = "returned"
                   /\ Len(run.sends) = 1
                   /\ o.llm = "raises" =>
                         run.sends[1].chain.message.text \in {"base_message", "meme_text"}
       /\ Len(procs') < Len(procs) =>
             \E i \in 1..Len(procs) :
                /\ procs' = RemoveAt(procs, i)
                /\ outbox'.rule = procs[i].rule
                /\ outbox'.event = procs[i].event
                /\ outbox'.status = "returned"
                /\ Len(outbox'.sends) = 1
                /\ rule_objs'[procs[i].rule].last_known_game_name = procs[i].info.game
                /\ \E t \in SchedulerClock :
                      rule_objs'[procs[i].rule].last_state_change_timestamp = IntTime(t)]_vars

\* C18 witness: a _notify_user run in which text_chat was called and raised
\* and send_message raised has returned, its one attempt carried the base
\* text, and the rule holds the game of the start event.
C18_Witness ==
    /\ outbox.status = "returned"
    /\ outbox.outcome.llm = "raises"
    /\ outbox.outcome.send = "raises"
    /\ outbox.called = <<"text_chat", "send_message">>
    /\ Len(outbox.sends) = 1
    /\ outbox.sends[1].chain = [kind |-> "Plain",
                                message |-> [text |-> "base_message", type |-> "start",
                                             game |-> "Go", duration |-> 0]]
    /\ procs = <<>>
    /\ rule_objs[outbox.rule].last_known_game_name = "Go"
    /\ rule_objs[outbox.rule].last_state_change_timestamp = MaxSec

\* ------------------------------------------------------------------ C21
\* C21: identity cache entries are never deleted.  No step takes a key out
\* of steam_id_cache, and a forced re-resolution of the cache-resolver loop
\* that gets no page or a page without an ID leaves the entry of its key,
\* timestamp included, as it was.
C21_CacheEntriesNeverDeleted ==
    [][/\ DOMAIN steam_id_cache \subseteq DOMAIN steam_id_cache'
       /\ (resolver.pc = "resolve" /\ resolver'.pc /= "resolve"
             /\ resolver'.pc /= "cancelled"
             /\ (~resolver'.last.page.fetched \/ ~Truthy(resolver'.last.page.id64))) =>
             /\ resolver'.last.status = "returned"
             /\ resolver.key \in DOMAIN steam_id_cache'
             /\ steam_id_cache'[resolver.key] = steam_id_cache[resolver.key]]_vars

\* C21 witness: the forced re-resolution of the entry written at the first
\* second got no page, and the entry still holds its ID and its timestamp.
C21_Witness ==
    /\ resolver.pc = "pause"
    /\ resolver.last.key = "https://steamcommunity.com/id/carol"
    /\ ~resolver.last.page.fetched
    /\ steam_id_cache["https://steamcommunity.com/id/carol"] =
          [id64 |-> "id64_3", timestamp |-> 1]

\* A step of the command specification in which add_rule or remove_rule ran
\* to its end: the commands count as passes and leave both loops alone.
CommandStep(command) ==
    /\ passes' = passes + 1
    /\ friend' = friend
    /\ individual' = individual
    /\ last_reply'.command = command

\* C22: when add_rule cannot resolve its input to a SteamID64 (the input is
\* not in the identity cache and the profile page is not fetched or carries
\* no ID), the caller gets the error reply and the rule list, the rule dicts
\* and the rules file stay as they were; the same holds for every add_rule
\* that does not answer with success.
C22_ResolutionFailureCreatesNoRule ==
    [][CommandStep("add_rule") =>
          /\ (/\ last_reply'.key \notin DOMAIN steam_id_cache
              /\ (~last_reply'.page.fetched \/ ~Truthy(last_reply'.page.id64))) =>
                 last_reply'.result = "error: not resolved"
          /\ last_reply'.result /= "added" =>
                 /\ monitoring_rules' = monitoring_rules
                 /\ rule_objs' = rule_objs
                 /\ saved_rules' = saved_rules]_vars

\* add_rule has answered an input whose profile page carries no ID with the
\* error, next to a rule list that holds a rule.
C22_Witness ==
    /\ last_reply.command = "add_rule"
    /\ last_reply.result = "error: not resolved"
    /\ last_reply.key = "https://steamcommunity.com/id/dave"
    /\ last_reply.page = [fetched |-> TRUE, id64 |-> None]
    /\ Len(monitoring_rules) = 1
    /\ saved_rules = RulesDocument(rule_objs)

\* C23: add_rule creates a friend_list rule whenever the resolved player is
\* on the friend list of the configured target profile and the target URL
\* is configured, and an individual rule otherwise, from every reachable
\* state, a rule store that starts empty included.
C23_ModeFollowsFriendList ==
    [][(CommandStep("add_rule") /\ last_reply'.result = "added") =>
          rule_objs'[Len(rule_objs')].monitoring_type =
             IF last_reply'.listed /\ config.target_profile_url /= ""
             THEN "friend_list" ELSE "individual"]_vars

\* C24: a 403 answer sends the friend-list loop into a sleep of five
\* friend-list intervals, and no fetch is attempted before that sleep has
\* ended; a pass that ends after a page or after no answer sleeps one
\* interval; a fetch is only ever entered from a sleep that ended, and
\* nothing but the cancellation of terminate takes the loop out of its
\* cycle of sleep, fetch and gather.
C24_ForbiddenBackoff ==
    [][/\ (friend.pc = "fetch" /\ friend'.pc = "sleep") =>
             friend'.sleep = IF friend'.fetch = "403"
                             THEN "friend_list_interval*5" ELSE "friend_list_interval"
       /\ (friend.pc = "gather" /\ friend'.pc = "sleep") =>
             /\ friend.fetch \in {"page", "unavailable"}
             /\ friend'.sleep = "friend_list_interval"
       /\ (friend.pc /= "fetch" /\ friend'.pc = "fetch") =>
             /\ friend.pc = "sleep"
             /\ friend'.sleep = friend.sleep
       /\ (friend.pc = "sleep" /\ friend.sleep = "friend_list_interval*5"
             /\ friend' /= friend /\ ~terminated') =>
             \/ friend' = [friend EXCEPT !.pc = "fetch", !.rules = friend'.rules]
             \/ friend' = [friend EXCEPT !.sleep = "friend_list_interval"]
       /\ ~terminated' => friend'.pc \in {"sleep", "fetch", "gather"}]_vars

\* The fetch that follows a 403 answer is being made, after the sleep of
\* five intervals.
C24_Witness ==
    /\ friend.pc = "fetch"
    /\ friend.fetch = "403"
    /\ friend.sleep = "friend_list_interval*5"
    /\ friend.alerts = 1

\* C25: when the friends-page fetch of a pass gives neither a page nor 403,
\* no rule of the pass gets a transition: its _process_rule_update call
\* appends no history entry, leaves last_known_game_name and
\* current_game_start_timestamp alone and asks for no notification.
C25_UnavailableSnapshotIsNoObservation ==
    [][(/\ friend.pc = "fetch"
        /\ friend'.pc \in {"gather", "sleep"}
        /\ friend'.fetch = "unavailable") =>
          \A i \in 1..Len(calls') :
             /\ calls'[i].appends = <<>>
             /\ calls'[i].event.type = "none"
             /\ calls'[i].post.last_known_game_name = calls'[i].pre.last_known_game_name
             /\ calls'[i].post.current_game_start_timestamp =
                   calls'[i].pre.current_game_start_timestamp]_vars

\* C26: a friend_list rule whose player is missing from the snapshot gets
\* the day rollover and nothing else in that pass: the game, the start
\* timestamp and the history stay, the playtime of the day changes only by
\* the reset of a new day, and no notification is asked for, a stop
\* notification for a rule with a game in progress included.
C26_AbsentFromSnapshotIsNotOffline ==
    [][(/\ friend.pc = "fetch"
        /\ friend'.pc \in {"gather", "sleep"}
        /\ friend'.fetch \in {"page", "unavailable"}) =>
          \A i \in 1..Len(calls') :
             ~calls'[i].info.present =>
                /\ calls'[i].owner = "friend"
                /\ calls'[i].status = "returned"
                /\ calls'[i].post = DayRollover(calls'[i].pre, calls'[i].t)
                /\ calls'[i].post.last_known_game_name =
                      calls'[i].pre.last_known_game_name
                /\ calls'[i].post.current_game_start_timestamp =
                      calls'[i].pre.current_game_start_timestamp
                /\ calls'[i].post.event_history = calls'[i].pre.event_history
                /\ (calls'[i].post.last_reset_day = calls'[i].pre.last_reset_day =>
                      calls'[i].post.total_playtime_today =
                         calls'[i].pre.total_playtime_today)
                /\ calls'[i].appends = <<>>
                /\ calls'[i].event = NoEvent
                /\ rule_objs'[calls'[i].rule_id] = calls'[i].post
                /\ Cardinality({j \in 1..Len(procs') :
                                   procs'[j].rule = calls'[i].rule_id}) =
                      Cardinality({j \in 1..Len(procs) :
                                     procs[j].rule = calls'[i].rule_id})
                /\ appended' = appended
                /\ outbox' = outbox]_vars

\* The friend-list pass has processed a rule with a game in progress whose
\* player is missing from the snapshot.
C26_Witness ==
    /\ friend.pc \in {"gather", "sleep"}
    /\ \E i \in 1..Len(calls) :
          /\ calls[i].owner = "friend"
          /\ ~calls[i].info.present
          /\ Truthy(calls[i].pre.last_known_game_name)
          /\ calls[i].pre.current_game_start_timestamp > 0
          /\ calls[i].post.last_known_game_name = calls[i].pre.last_known_game_name

\* rule_id, target_steam_id64, notification_uid, game_name_to_monitor and
\* monitoring_type of a rule dict.
Identity(rule) ==
    <<rule.rule_id, rule.target_steam_id64, rule.notification_uid,
      rule.game_name_to_monitor, rule.monitoring_type>>

\* C27: no step changes the rule_id, target_steam_id64, notification_uid,
\* game_name_to_monitor or monitoring_type of a rule that exists; add_rule
\* only creates a rule, remove_rule only takes one off the list, and
\* _process_rule_update keeps the five fields from its call to its end, so
\* every call for a rule is made by the loop of the rule's monitoring type.
C27_RuleIdentityIsImmutable ==
    [][/\ \A rid \in DOMAIN rule_objs :
             /\ rid \in DOMAIN rule_objs'
             /\ Identity(rule_objs'[rid]) = Identity(rule_objs[rid])
             /\ rule_objs'[rid].rule_id = rid
       /\ Range(monitoring_rules') \subseteq Range(monitoring_rules) \/ CommandStep("add_rule")
       /\ \A i \in 1..Len(calls') :
             /\ Identity(calls'[i].post) = Identity(calls'[i].pre)
             /\ calls'[i].owner =
                   IF rule_objs'[calls'[i].rule_id].monitoring_type = "friend_list"
                   THEN "friend" ELSE "individual"]_vars

\* A rule created by add_rule has gone through a state change and through
\* the final update of _process_rule_update.
C27_Witness ==
    /\ last_reply.command = "add_rule"
    /\ last_reply.result = "added"
    /\ \E i \in 1..Len(calls) :
          /\ calls[i].rule_id = Len(rule_objs)
          /\ calls[i].appends /= <<>>
          /\ rule_objs[calls[i].rule_id].last_known_game_name = "Go"
          /\ calls[i].pre.last_known_game_name = None

\* C28: once remove_rule has taken a rule off the list, no
\* _process_rule_update begun afterwards mutates the rule or asks for a
\* notification for it; this covers a removal that falls into the sleep of
\* the individual loop between computing its rule list and polling.
C28_NoProcessingAfterRemoval ==
    [][calls' /= calls =>
          \A i \in 1..Len(calls') :
             calls'[i].rule_id \notin Range(monitoring_rules) =>
                /\ calls'[i].post = calls'[i].pre
                /\ calls'[i].event.type = "none"]_vars

\* C29: after any sequence of add_rule and remove_rule commands, run between
\* the steps of the loops, the rule list never holds two rules with the
\* same target_steam_id64 and notification_uid, and the rule_ids of the
\* listed rules are distinct.
C29_NoDuplicateWatches ==
    \A i, j \in 1..Len(monitoring_rules) :
       i /= j =>
          /\ rule_objs[monitoring_rules[i]].rule_id /= rule_objs[monitoring_rules[j]].rule_id
          /\ <<rule_objs[monitoring_rules[i]].target_steam_id64,
               rule_objs[monitoring_rules[i]].notification_uid>> /=
             <<rule_objs[monitoring_rules[j]].target_steam_id64,
               rule_objs[monitoring_rules[j]].notification_uid>>

\* add_rule has turned down a second watch of a player for a session that
\* already has one; the list holds two watches of the player, one for each
\* session.
C29_Witness ==
    /\ last_reply.command = "add_rule"
    /\ last_reply.result = "warning: already monitored"
    /\ Len(monitoring_rules) = 2
    /\ rule_objs[monitoring_rules[1]].target_steam_id64 =
          rule_objs[monitoring_rules[2]].target_steam_id64

\* The latest dispatch called _process_rule_update for every listed rule of
\* the monitoring type kind, in list order, on behalf of owner.
DispatchedAll(kind, owner) ==
    /\ Len(calls) = Len(RulesOfType(kind))
    /\ \A i \in 1..Len(calls) :
          /\ calls[i].owner = owner
          /\ calls[i].rule_id = RulesOfType(kind)[i]

\* C30: while the loops are not cancelled and the awaited calls return, the
\* individual loop goes on from every sleep to a poll of its rules and hands
\* every individual rule to _process_rule_update in that pass, again and
\* again as far as the pass budget reaches, also after a pass that ended in
\* an error; the friend-list loop goes on to its next fetch in the same
\* way, and every answer of that fetch that is a page or nothing is
\* followed by a _process_rule_update call for every friend_list rule.
C30_PollingLiveness ==
    /\ (/\ individual.pc \in {"sleep", "presleep"}
        /\ RulesOfType("individual") /= <<>>
        /\ ~terminated
        /\ passes < MaxPasses) ~>
          (terminated \/ passes = MaxPasses \/ individual.pc = "fetch")
    /\ (individual.pc = "fetch") ~>
          \/ terminated
          \/ individual.pc \in {"gather", "sleep"} /\ DispatchedAll("individual", "individual")
    /\ (individual.pc = "gather") ~>
          (terminated \/ individual.pc \in {"sleep", "presleep"})
    /\ (/\ friend.pc = "sleep"
        /\ RulesOfType("friend_list") /= <<>>
        /\ ~terminated
        /\ passes < MaxPasses) ~>
          (terminated \/ passes = MaxPasses \/ friend.pc = "fetch")
    /\ (friend.pc = "fetch") ~>
          \/ terminated
          \/ friend.pc = "sleep" /\ friend.fetch \in {"403", "malformed"}
          \/ friend.pc \in {"gather", "sleep"} /\ DispatchedAll("friend_list", "friend")
    /\ (friend.pc = "gather") ~> (terminated \/ friend.pc = "sleep")

\* The individual loop polls again in the pass after one that ended in an
\* error.
C30_Witness ==
    /\ individual.errors = 1
    /\ individual.pc = "gather"
    /\ passes = MaxPasses
    /\ DispatchedAll("individual", "individual")
    /\ ~terminated

====
